---- MODULE Spec2Model ----
(***************************************************************************)
(* A model of utpatur-api: the hut graph (Hut nodes, LINK relationships)   *)
(* held in Neo4j, the admin curation handlers that mutate it, the public   *)
(* reachable-huts traversal, the itinerary save/load service, the batch    *)
(* link-enrichment job, the retrying database access layer and the KML /   *)
(* GPX export service with its in-memory stores.                           *)
(*                                                                         *)
(* The repository carries two drafts of the HTTP layer.  The variable      *)
(* `variant` says which one serves the requests of a behaviour:            *)
(*   "flat"    : main.py, huts_router.py, admin_router.py,                 *)
(*               admin_security.py (X-Admin-Token header)                  *)
(*   "routers" : routers/huts.py, routers/admin.py, security.py,           *)
(*               models.py (bearer token)                                  *)
(* A Cypher statement is one transaction and is modelled as one atomic     *)
(* step.  Distances and climbs are integers (km, m).                       *)
(***************************************************************************)
EXTENDS Integers, Sequences, FiniteSets, TLC

\* ------------------------------------------------------------------ bounds
\* Hut nodes a behaviour may create.
MaxHuts == 3

\* ------------------------------------------------------------------ values
NULL == "null"
Variants == {"flat", "routers"}
\* The token of the environment (ADMIN_TOKEN), when one is configured.
Secret == "secret"
\* What a caller may present: nothing, the token, something else.
Creds == {NULL, Secret, "wrong"}
\* Server processes handling requests against the one database.
Procs == {"p1", "p2"}
\* Text is the sequence of its code points: <<65, 98>> is "Ab".
\* geometry_polyline of a relationship: none, or an encoded polyline.
Polylines == {NULL, "poly"}
\* Latitudes of import requests: one in range, one out of range.
Coordinates == {<<67, 20>>, <<95, 20>>, <<67, 200>>}
\* Search texts: "ab", the too short "a", and "cd".
Queries == {<<97, 98>>, <<97>>, <<99, 100>>}
\* What the routing service may answer to one call.
OrsOutcomes == {"network_error", "http_error", "bad_json", "no_routes", "no_summary", "ok"}
\* What the Overpass service may answer to one call.
OverpassOutcomes == {"network_error", "http_error", "bad_json", "not_an_object", "empty", "hit"}

VARIABLES
    variant,      \* which draft serves the requests
    admin_token,  \* ADMIN_TOKEN of the environment, NULL when unset
    ors_api_key,  \* ORS_API_KEY of the environment, NULL when unset
    huts,         \* the Hut nodes: [nid, hut_id, name]; every imported hut has coordinates
    links,        \* the LINK relationships: [rid, src, dst, distance_km, ...]
    imp,          \* per handler, the import request in flight
    resp,         \* the response of the last request
    itins,        \* the Itinerary nodes, in the order of their creation
    sav,          \* per handler, the save request in flight
    job,          \* the enrichment job: its position, its batch, what it has done
    db,           \* the database call in flight: its attempts, its waits, its outcome
    kml_storage,  \* the KML documents kept in memory, by identifier
    gpx_storage   \* the GPX documents kept in memory, by identifier

vars == <<variant, admin_token, ors_api_key, huts, links, imp, resp, itins, sav, job,
          db, kml_storage, gpx_storage>>

\* An optional value: nothing, or the value.
None == <<>>
Some(x) == <<x>>

\* A hut without a name to report (via of a path that is not 2 segments long).
NoName == <<>>

\* ------------------------------------------------------------------ helpers
Max(S) == CHOOSE x \in S : \A y \in S : y <= x
Min(S) == CHOOSE x \in S : \A y \in S : x <= y
Range(s) == {s[i] : i \in 1..Len(s)}

HutIds(H) == {h.hut_id : h \in H}
NodeOf(H, n) == CHOOSE h \in H : h.nid = n
\* A match on the label alone, whatever the hut_id.
MatchHut_any(H, id) == H

\* MATCH (h:Hut {hut_id: $id}): every node carrying that hut_id.
MatchHut(H, id) == {h \in H : h.hut_id = id}

\* Neo4j gives a new node / relationship an identity no other one has: here
\* the next node number, and for a relationship its end nodes with a number
\* that tells it from the other relationships between the same two nodes.
NewNid(H) == IF H = {} THEN 1 ELSE Max({h.nid : h \in H}) + 1
NewRid(L, a, b) == <<a, b, Cardinality({l \in L : l.src = a /\ l.dst = b}) + 1>>

\* ------------------------------------------------------------------ admin gate
\* security = HTTPBearer(): the scheme runs before require_admin and itself
\* rejects a request that carries no Authorization header; the status of that
\* rejection is the installed FastAPI's (403 "Not authenticated", 401 in
\* later releases).  The set of statuses it may answer; {} lets it pass.
HTTPBearer(cred) == IF cred = NULL THEN {401, 403} ELSE {}

\* admin_security.require_admin (header) and security.require_admin (bearer):
\* the set of statuses the gate may answer; 200 stands for "request admitted".
require_admin_flat(token, cred) ==
    IF token = NULL THEN {500}
    ELSE IF cred # token THEN {401}
    ELSE {200}

require_admin_bearer(token, cred) ==
    IF HTTPBearer(cred) # {} THEN HTTPBearer(cred)
    ELSE IF token = NULL THEN {500}
    ELSE IF cred # token THEN {401}
    ELSE {200}

require_admin(v, token, cred) ==
    IF v = "flat" THEN require_admin_flat(token, cred)
    ELSE require_admin_bearer(token, cred)

\* A response.  admitted: whether the gate let the request through.
Response(op, cred, status, admitted, body) ==
    [op |-> op, cred |-> cred, status |-> status, admitted |-> admitted, body |-> body]

AdminOps == {"fuzzy_search", "overpass_search", "import_hut", "preview_route", "create_link"}

\* The gate refuses the request: the handler never runs.
Refused(op, cred) ==
    /\ \E st \in require_admin(variant, admin_token, cred) :
          /\ st # 200
          /\ resp' = Response(op, cred, st, FALSE, NULL)
    /\ UNCHANGED <<variant, admin_token, ors_api_key, huts, links, imp, itins, sav, job, db, kml_storage, gpx_storage>>

Admitted(cred) == 200 \in require_admin(variant, admin_token, cred)

\* ------------------------------------------------------------------ text
\* Cypher toLower / CONTAINS and the order of ORDER BY on strings.
Lower(c) == IF c \in 65..90 THEN c + 32 ELSE c
toLower(s) == [i \in 1..Len(s) |-> Lower(s[i])]
Contains(s, q) == \E i \in 0..(Len(s) - Len(q)) : SubSeq(s, i + 1, i + Len(q)) = q
NameLess(a, b) ==
    \E k \in 1..(Len(a) + 1) :
        /\ k <= Len(b)
        /\ \A i \in 1..(k - 1) : a[i] = b[i]
        /\ (k = Len(a) + 1 \/ a[k] < b[k])

\* The orders a query may return the rows S in under ORDER BY: every sequence
\* of all of S in which no row comes before one that is Less than it.
OrderBy(S, Less(_, _)) ==
    {s \in [1..Cardinality(S) -> S] :
        /\ \A i, j \in 1..Cardinality(S) : i # j => s[i] # s[j]
        /\ \A i, j \in 1..Cardinality(S) : i < j => ~Less(s[j], s[i])}
Limit(s, n) == SubSeq(s, 1, IF Len(s) < n THEN Len(s) ELSE n)

\* ------------------------------------------------------------------ search
\* fuzzy_search_huts / admin_search_huts: the hut_ids of the huts whose name
\* contains the text, case-insensitively, by name, at most `limit` of them.
HutNameLess(a, b) == NameLess(a.name, b.name)
fuzzy_search_rows(H, q, limit) ==
    {[i \in 1..Len(Limit(s, limit)) |-> s[i].hut_id] :
        s \in OrderBy({h \in H : Contains(toLower(h.name), toLower(q))}, HutNameLess)}

\* Query(..., min_length=2)
MinQueryLength == 2

fuzzy_search(cred, q, limit) ==
    \/ Refused("fuzzy_search", cred)
    \/ /\ Admitted(cred)
       /\ IF Len(q) < MinQueryLength
          THEN resp' = Response("fuzzy_search", cred, 422, TRUE, NULL)
          ELSE \E rows \in fuzzy_search_rows(huts, q, limit) :
                  resp' = Response("fuzzy_search", cred, 200, TRUE, rows)
       /\ UNCHANGED <<variant, admin_token, ors_api_key, huts, links, imp, itins, sav, job, db, kml_storage, gpx_storage>>

\* The failures of one call: a timeout or another network error, a status
\* that is not a success, a body that is not JSON, a JSON body that is not an
\* object (a non-empty array).
OverpassFailures == {"network_error", "http_error", "bad_json", "not_an_object"}

\* safe_overpass (flat) and the try/except of overpass_search (routers): what
\* one call to the service leaves the handler with, NULL when the call
\* failed and was caught, "array" for a body that is not an object, else
\* whether it returned a named element with coordinates.
safe_overpass(outcome) ==
    IF outcome \in {"network_error", "http_error", "bad_json"} THEN NULL
    ELSE IF outcome = "not_an_object" THEN "array"
    ELSE IF outcome = "hit" THEN "one" ELSE "none"

\* The calls the handler makes, in order, with their outcomes.  overpass_search
\* (routers): one query by name.  overpass_search_huts (flat): the places,
\* the huts around the place found, the query by name when no hut was found;
\* .get on a body that is not an object raises and ends the handler.
overpass_calls(v, places, around, direct) ==
    IF v = "routers" THEN <<direct>>
    ELSE IF safe_overpass(places) = "array" THEN <<places>>
    ELSE IF safe_overpass(places) # "one" THEN <<places, direct>>
    ELSE IF safe_overpass(around) = "array" THEN <<places, around>>
    ELSE IF safe_overpass(around) = "one" THEN <<places, around>>
    ELSE <<places, around, direct>>

\* data.get("elements", []) on a body that is not an object: AttributeError.
overpass_raises(v, places, around, direct) ==
    LET calls == overpass_calls(v, places, around, direct)
    IN  safe_overpass(calls[Len(calls)]) = "array"

\* The candidates returned when nothing was raised.
overpass_candidates(v, places, around, direct) ==
    LET calls == overpass_calls(v, places, around, direct)
    IN  IF safe_overpass(calls[Len(calls)]) = "one" THEN <<"candidate">> ELSE <<>>

overpass_search(cred, q, places, around, direct) ==
    \/ Refused("overpass_search", cred)
    \/ /\ Admitted(cred)
       /\ IF Len(q) < MinQueryLength
          THEN resp' = Response("overpass_search", cred, 422, TRUE, NULL)
          ELSE IF overpass_raises(variant, places, around, direct)
          THEN resp' = Response("overpass_search", cred, 500, TRUE,
                                [calls |-> overpass_calls(variant, places, around, direct),
                                 candidates |-> <<>>])
          ELSE resp' = Response("overpass_search", cred, 200, TRUE,
                                [calls |-> overpass_calls(variant, places, around, direct),
                                 candidates |-> overpass_candidates(variant, places, around, direct)])
       /\ UNCHANGED <<variant, admin_token, ors_api_key, huts, links, imp, itins, sav, job, db, kml_storage, gpx_storage>>

\* ------------------------------------------------------------------ preview
\* What the routing service answers when it answers well: 2000 m, 1 m up.
OrsSummary == [distance |-> 2000, ascent |-> 1, descent |-> 0]
MetersPerKm == 1000

\* preview_route: status and body for one answer of the routing service.
preview_route_result(v, outcome) ==
    IF outcome \in {"network_error", "http_error", "bad_json", "no_routes"}
    THEN [status |-> 502, body |-> NULL]
    ELSE IF outcome = "no_summary"
    THEN (IF v = "flat"
          THEN [status |-> 502, body |-> NULL]
          ELSE [status |-> 200,
                body |-> [distance_km |-> 0 \div MetersPerKm, dplus_m |-> 0, dminus_m |-> 0]])
    ELSE [status |-> 200,
          body |-> [distance_km |-> OrsSummary.distance \div MetersPerKm,
                    dplus_m |-> OrsSummary.ascent, dminus_m |-> OrsSummary.descent]]

preview_route(cred, outcome) ==
    \/ Refused("preview_route", cred)
    \/ /\ Admitted(cred)
       /\ IF ors_api_key = NULL
          THEN resp' = Response("preview_route", cred, 500, TRUE, NULL)
          ELSE LET r == preview_route_result(variant, outcome)
               IN  resp' = Response("preview_route", cred, r.status, TRUE, r.body)
       /\ UNCHANGED <<variant, admin_token, ors_api_key, huts, links, imp, itins, sav, job, db, kml_storage, gpx_storage>>

\* ------------------------------------------------------------------ import
\* ImportHutRequest (models.py): latitude: float = Field(..., ge=-90, le=90),
\* longitude: float = Field(..., ge=-180, le=180).
\* ImportHutFromOverpassRequest (admin_router.py) constrains nothing.
LatMin == -90
LatMax == 90
LonMin == -180
LonMax == 180

\* A request model that constrains nothing in either draft.
ImportHutRequest_unchecked(v, lat, lon) == TRUE

ImportHutRequest_valid(v, lat, lon) ==
    v = "flat" \/ (LatMin <= lat /\ lat <= LatMax /\ LonMin <= lon /\ lon <= LonMax)

Idle ==
    [pc |-> "idle", max_id |-> 0, name |-> <<>>, latitude |-> 0, longitude |-> 0,
     cred |-> NULL]

\* MATCH (h:Hut) RETURN coalesce(max(h.hut_id), 0) AS max_id
max_hut_id(H) == IF H = {} THEN 0 ELSE Max(HutIds(H))

\* import_hut, first statement: the gate, the validation of the body, then
\* the query that reads the largest hut_id.
import_hut_read(p, cred, name, lat, lon) ==
    /\ imp[p].pc = "idle"
    /\ Cardinality(huts) + Cardinality({q \in Procs : imp[q].pc = "read"}) < MaxHuts
    /\ \/ Refused("import_hut", cred)
       \/ /\ Admitted(cred)
          /\ IF ~ImportHutRequest_valid(variant, lat, lon)
             THEN /\ resp' = Response("import_hut", cred, 422, TRUE,
                                      [hut_id |-> 0, latitude |-> lat, longitude |-> lon])
                  /\ UNCHANGED imp
             ELSE /\ imp' = [imp EXCEPT ![p] =
                               [pc |-> "read", max_id |-> max_hut_id(huts),
                                name |-> name, latitude |-> lat, longitude |-> lon,
                                cred |-> cred]]
                  /\ UNCHANGED resp
          /\ UNCHANGED <<variant, admin_token, ors_api_key, huts, links, itins, sav, job, db, kml_storage, gpx_storage>>

\* new_id = int(max_id) + 1
new_hut_id(max_id) == max_id + 1

\* import_hut, second statement: CREATE (h:Hut {hut_id: $hut_id, ...}).
import_hut_create(p) ==
    /\ imp[p].pc = "read"
    /\ huts' = huts \cup {[nid |-> NewNid(huts), hut_id |-> new_hut_id(imp[p].max_id),
                            name |-> imp[p].name]}
    /\ imp' = [imp EXCEPT ![p] = Idle]
    /\ resp' = Response("import_hut", imp[p].cred, 201, TRUE,
                        [hut_id |-> new_hut_id(imp[p].max_id), latitude |-> imp[p].latitude,
                         longitude |-> imp[p].longitude])
    /\ UNCHANGED <<variant, admin_token, ors_api_key, links, itins, sav, job, db, kml_storage, gpx_storage>>

\* ------------------------------------------------------------------ links
\* CreateLinkRequest.different_huts (models.py); the flat draft's request
\* model has no such validator.
CreateLinkRequest_valid(v, from_id, to_id) == v = "flat" \/ from_id # to_id

\* A LINK relationship as MERGE creates it: no property set yet.
NewLink(L, a, b) ==
    [rid |-> NewRid(L, a, b), src |-> a, dst |-> b, distance_km |-> 0, dplus_m |-> 0,
     dminus_m |-> 0, geometry_polyline |-> NULL, ors_skip |-> FALSE, ors_reason |-> None]

\* MERGE (a)-[r:LINK]->(b): the relationships from a to b, after creating
\* one when there is none.
merge_link(L, a, b) ==
    IF \E l \in L : l.src = a /\ l.dst = b THEN L ELSE L \cup {NewLink(L, a, b)}

\* SET r.distance_km = ..., r.dplus_m = ..., r.dminus_m = ... and, in the
\* routers draft, r.geometry_polyline = ... on every relationship from a to b.
set_link(v, L, a, b, d, dp, dm, g) ==
    {IF l.src = a /\ l.dst = b
     THEN [l EXCEPT !.distance_km = d, !.dplus_m = dp, !.dminus_m = dm,
                    !.geometry_polyline = IF v = "routers" THEN g ELSE @]
     ELSE l : l \in L}

\* MATCH (a:Hut {hut_id: $from}) MATCH (b:Hut {hut_id: $to}) MERGE ... SET ...
\* over every matched pair of nodes in `pairs`.
RECURSIVE upsert_links(_, _, _, _, _, _, _)
upsert_links(v, L, pairs, d, dp, dm, g) ==
    IF pairs = {} THEN L
    ELSE LET pr == CHOOSE x \in pairs : TRUE
         IN  upsert_links(v, set_link(v, merge_link(L, pr[1], pr[2]), pr[1], pr[2], d, dp, dm, g),
                          pairs \ {pr}, d, dp, dm, g)

\* The climbs written on the reverse relationship: routers/admin.py sets
\* r.dplus_m = $dminus_m, r.dminus_m = $dplus_m; admin_router.py writes them
\* as they came.
backward_climbs(v, dp, dm) == IF v = "routers" THEN <<dm, dp>> ELSE <<dp, dm>>

\* The forward statement of create_link, then the backward one.
create_link_forward(v, H, L, from_id, to_id, d, dp, dm, g) ==
    upsert_links(v, L, {<<a.nid, b.nid>> : a \in MatchHut(H, from_id), b \in MatchHut(H, to_id)},
                 d, dp, dm, g)
create_link_backward(v, H, L, from_id, to_id, d, dp, dm, g) ==
    upsert_links(v, L, {<<b.nid, a.nid>> : a \in MatchHut(H, from_id), b \in MatchHut(H, to_id)},
                 d, backward_climbs(v, dp, dm)[1], backward_climbs(v, dp, dm)[2], g)

create_link(cred, from_id, to_id, d, dp, dm, g, bidirectional) ==
    /\ \/ Refused("create_link", cred)
       \/ /\ Admitted(cred)
          /\ LET req == [from_hut_id |-> from_id, to_hut_id |-> to_id, distance_km |-> d,
                         dplus_m |-> dp, dminus_m |-> dm, geometry_polyline |-> g,
                         bidirectional |-> bidirectional]
                 fwd == create_link_forward(variant, huts, links, from_id, to_id, d, dp, dm, g)
             IN
             IF ~CreateLinkRequest_valid(variant, from_id, to_id)
             THEN /\ resp' = Response("create_link", cred, 422, TRUE, req)
                  /\ UNCHANGED links
             ELSE IF MatchHut(huts, from_id) = {} \/ MatchHut(huts, to_id) = {}
             THEN /\ resp' = Response("create_link", cred, 404, TRUE, req)
                  /\ UNCHANGED links
             ELSE /\ links' = IF bidirectional
                              THEN create_link_backward(variant, huts, fwd, from_id, to_id, d, dp, dm, g)
                              ELSE fwd
                  /\ resp' = Response("create_link", cred, 201, TRUE, req)
          /\ UNCHANGED <<variant, admin_token, ors_api_key, huts, imp, itins, sav, job, db, kml_storage, gpx_storage>>

\* ------------------------------------------------------------------ reachable
\* MATCH p = (start)-[rels:LINK*1..5]->(dest:Hut)
MaxPathLen == 5
\* LIMIT 1000 (routers/huts.py)
ResultLimit == 1000
\* Query(35.0, ge=1.0, le=100.0) and Query(2, ge=1, le=5)
MinDistanceKm == 1
MaxDistanceKm == 100
MinSegments == 1
MaxSegments == 5

\* The paths of exactly n relationships that leave node s: Cypher matches a
\* relationship at most once in a path, a node as often as the path meets it.
RECURSIVE PathsOfLen(_, _, _)
PathsOfLen(L, s, n) ==
    IF n = 1 THEN {<<l>> : l \in {x \in L : x.src = s}}
    ELSE {Append(p, l) : <<p, l>> \in
            {<<q, x>> \in PathsOfLen(L, s, n - 1) \X L :
                x.src = q[Len(q)].dst /\ x \notin Range(q)}}

RECURSIVE SumOver(_, _)
SumOver(p, field) ==
    IF p = <<>> THEN 0 ELSE p[1][field] + SumOver(Tail(p), field)

\* A traversal whose WHERE has lost "total_distance_km <= $max_distance_km".
qualifying_paths_uncapped(H, L, start_id, max_distance_km, max_segments) ==
    {p \in UNION {PathsOfLen(L, s.nid, n) : s \in MatchHut(H, start_id), n \in 1..MaxPathLen} :
        /\ p[Len(p)].dst # p[1].src
        /\ Len(p) <= max_segments}

\* The rows of the first WITH ... WHERE: one per path to a node other than
\* its start, within the caller's limits.
qualifying_paths(H, L, start_id, max_distance_km, max_segments) ==
    {p \in UNION {PathsOfLen(L, s.nid, n) : s \in MatchHut(H, start_id), n \in 1..MaxPathLen} :
        /\ p[Len(p)].dst # p[1].src
        /\ Len(p) <= max_segments
        /\ SumOver(p, "distance_km") <= max_distance_km}

\* An ORDER BY total_distance_km DESC in place of ASC.
path_before_desc(v, p, q) ==
    SumOver(p, "distance_km") > SumOver(q, "distance_km")

\* ORDER BY total_distance_km ASC, segments ASC (huts_router.py);
\* ORDER BY total_distance_km ASC (routers/huts.py).
path_before(v, p, q) ==
    \/ SumOver(p, "distance_km") < SumOver(q, "distance_km")
    \/ /\ v = "flat"
       /\ SumOver(p, "distance_km") = SumOver(q, "distance_km")
       /\ Len(p) < Len(q)

\* head(collect(...)) per dest: a path to dest that the order puts before
\* or level with every other one.
best_paths(v, P, dest) ==
    {p \in P : /\ p[Len(p)].dst = dest
               /\ \A q \in P : q[Len(q)].dst = dest => ~path_before(v, q, p)}

step_of(H, l) ==
    [from_hut_id |-> NodeOf(H, l.src).hut_id, to_hut_id |-> NodeOf(H, l.dst).hut_id,
     distance_km |-> l.distance_km, dplus_m |-> l.dplus_m, dminus_m |-> l.dminus_m,
     geometry_polyline |-> l.geometry_polyline, ors_skip |-> l.ors_skip]

\* A row whose via is computed for every path of two segments or more.
row_of_via_any_length(H, p) ==
    LET dest == NodeOf(H, p[Len(p)].dst)
    IN  [nid |-> dest.nid, hut_id |-> dest.hut_id, name |-> dest.name,
         total_distance_km |-> SumOver(p, "distance_km"),
         total_dplus_m |-> SumOver(p, "dplus_m"),
         total_dminus_m |-> SumOver(p, "dminus_m"),
         segments |-> Len(p),
         via |-> IF Len(p) >= 2 THEN NodeOf(H, p[1].dst).name ELSE NoName,
         steps |-> [i \in 1..Len(p) |-> step_of(H, p[i])]]

\* The RETURN row of a kept path.  nid names the dest node itself: the
\* response does not carry it, the properties below read it.
row_of(H, p) ==
    LET dest == NodeOf(H, p[Len(p)].dst)
    IN  [nid |-> dest.nid, hut_id |-> dest.hut_id, name |-> dest.name,
         total_distance_km |-> SumOver(p, "distance_km"),
         total_dplus_m |-> SumOver(p, "dplus_m"),
         total_dminus_m |-> SumOver(p, "dminus_m"),
         segments |-> Len(p),
         via |-> IF Len(p) = 2 THEN NodeOf(H, p[1].dst).name ELSE NoName,
         steps |-> [i \in 1..Len(p) |-> step_of(H, p[i])]]

\* ORDER BY total_distance_km ASC, name ASC
row_before(a, b) ==
    \/ a.total_distance_km < b.total_distance_km
    \/ a.total_distance_km = b.total_distance_km /\ NameLess(a.name, b.name)

\* Every result the traversal query may return.
reachable_rows(v, H, L, start_id, max_distance_km, max_segments) ==
    LET P == qualifying_paths(H, L, start_id, max_distance_km, max_segments)
        dests == {p[Len(p)].dst : p \in P}
        bests == UNION {best_paths(v, P, d) : d \in dests}
        kept == {f \in [dests -> bests] : \A d \in dests : f[d] \in best_paths(v, P, d)}
    IN  UNION {
          {IF v = "routers" THEN Limit(s, ResultLimit) ELSE s :
              s \in OrderBy({row_of(H, f[d]) : d \in dests}, row_before)} : f \in kept}

\* validate_distance / validate_segments (security.py): the status they raise,
\* 200 when they raise nothing.
validate_distance(distance_km) ==
    IF distance_km < 0 THEN 400 ELSE IF distance_km > MaxDistanceKm THEN 400 ELSE 200
validate_segments(segments) ==
    IF segments < MinSegments THEN 400 ELSE IF segments > MaxSegments THEN 400 ELSE 200

\* The Query(...) constraints of the two drafts on the request.
reachable_query_valid(v, max_distance_km, max_segments) ==
    /\ MinSegments <= max_segments /\ max_segments <= MaxSegments
    /\ v = "routers" => (MinDistanceKm <= max_distance_km /\ max_distance_km <= MaxDistanceKm)

\* get_reachable_huts: the responses it may give (status, rows), with the
\* statements it has run to give them: looked_up for the existence check,
\* queried for the traversal.
get_reachable_huts_results(v, H, L, start_id, max_distance_km, max_segments) ==
    IF ~reachable_query_valid(v, max_distance_km, max_segments)
    THEN {[status |-> 422, rows |-> <<>>, looked_up |-> FALSE, queried |-> FALSE]}
    ELSE IF v = "routers" /\ validate_distance(max_distance_km) # 200
    THEN {[status |-> 400, rows |-> <<>>, looked_up |-> FALSE, queried |-> FALSE]}
    ELSE IF v = "routers" /\ validate_segments(max_segments) # 200
    THEN {[status |-> 400, rows |-> <<>>, looked_up |-> FALSE, queried |-> FALSE]}
    ELSE IF v = "flat" /\ max_distance_km <= 0
    THEN {[status |-> 200, rows |-> <<>>, looked_up |-> FALSE, queried |-> FALSE]}
    ELSE IF MatchHut(H, start_id) = {}
    THEN {[status |-> 404, rows |-> <<>>, looked_up |-> TRUE, queried |-> FALSE]}
    ELSE {[status |-> 200, rows |-> r, looked_up |-> TRUE, queried |-> TRUE] :
            r \in reachable_rows(v, H, L, start_id, max_distance_km, max_segments)}

get_reachable_huts(start_id, max_distance_km, max_segments) ==
    /\ \E r \in get_reachable_huts_results(variant, huts, links, start_id,
                                            max_distance_km, max_segments) :
          resp' = Response("get_reachable_huts", NULL, r.status, TRUE,
                           [hut_id |-> start_id, max_distance_km |-> max_distance_km,
                            max_segments |-> max_segments, looked_up |-> r.looked_up,
                            queried |-> r.queried,
                            huts |-> r.rows])
    /\ UNCHANGED <<variant, admin_token, ors_api_key, huts, links, imp, itins, sav, job, db, kml_storage, gpx_storage>>

\* ------------------------------------------------------------------ itineraries
\* An Optional value: None, or Some(x).

\* The values a request body and json.dumps / json.loads deal in, each with
\* its Python type; text is the sequence of its character codes.
PyStr(s) == [t |-> "str", v |-> s]
PyNum(n) == [t |-> "num", v |-> <<n>>]
PyBool(b) == [t |-> "bool", v |-> <<IF b THEN 1 ELSE 0>>]
PyNone == [t |-> "null", v |-> <<>>]

\* CODE_CHARS = "23456789ABCDEFGHJKMNPQRSTUVWXYZ"
CODE_CHARS ==
    <<50, 51, 52, 53, 54, 55, 56, 57, 65, 66, 67, 68, 69, 70, 71, 72, 74, 75, 77, 78,
      80, 81, 82, 83, 84, 85, 86, 87, 88, 89, 90>>
CODE_LENGTH == 6
\* The draws of secrets.choice that are followed: codes that differ in their
\* last character only.
DrawnChars == {65, 66}
generate_unique_code ==
    {[i \in 1..CODE_LENGTH |-> IF i < CODE_LENGTH THEN CODE_CHARS[1] ELSE c] :
        c \in DrawnChars \cap Range(CODE_CHARS)}

\* str(n) of a natural number.
RECURSIVE str_of_int(_)
str_of_int(n) == IF n < 10 THEN <<48 + n>> ELSE Append(str_of_int(n \div 10), 48 + (n % 10))

\* SavedHut.convert_hut_id_to_str
convert_hut_id_to_str(v) == IF v.t = "num" THEN PyStr(str_of_int(v.v[1])) ELSE v

SavedHutFields ==
    <<"hut_id", "name", "latitude", "longitude", "country_code", "altitude", "is_rest_day">>
SavedSegmentFields == <<"distance_km", "elevation_gain", "elevation_loss", "geometry_polyline">>
SavedStepFields ==
    <<"from_hut_id", "to_hut_id", "distance_km", "dplus_m", "dminus_m", "geometry_polyline">>

\* SavedHut(**h), SavedSegment(**s), SavedStep(**s): the model object built
\* from the fields given.
SavedHut(h) ==
    [hut_id |-> convert_hut_id_to_str(h["hut_id"]), name |-> h["name"],
     latitude |-> h["latitude"], longitude |-> h["longitude"],
     country_code |-> h["country_code"], altitude |-> h["altitude"],
     is_rest_day |-> h["is_rest_day"]]
SavedSegment(g) ==
    [distance_km |-> g["distance_km"], elevation_gain |-> g["elevation_gain"],
     elevation_loss |-> g["elevation_loss"], geometry_polyline |-> g["geometry_polyline"]]
SavedStep(g) ==
    [from_hut_id |-> g["from_hut_id"], to_hut_id |-> g["to_hut_id"],
     distance_km |-> g["distance_km"], dplus_m |-> g["dplus_m"], dminus_m |-> g["dminus_m"],
     geometry_polyline |-> g["geometry_polyline"]]

\* model_dump(): the fields in the order of their declaration, as pairs.
model_dump(obj, fields) == [i \in 1..Len(fields) |-> <<fields[i], obj[fields[i]]>>]

\* json.dumps of a list of such dicts: the text, token by token.
Punct(c) == [k |-> "", t |-> c, v |-> <<>>]
json_member(pair) ==
    [k |-> pair[1],
     t |-> IF pair[2].t = "bool" THEN (IF pair[2].v = <<1>> THEN "true" ELSE "false")
           ELSE pair[2].t,
     v |-> IF pair[2].t = "bool" THEN <<>> ELSE pair[2].v]
RECURSIVE Flatten(_)
Flatten(ss) == IF ss = <<>> THEN <<>> ELSE Head(ss) \o Flatten(Tail(ss))
json_dumps(dicts) ==
    <<Punct("[")>>
    \o Flatten([i \in 1..Len(dicts) |->
                  <<Punct("{")>> \o [j \in 1..Len(dicts[i]) |-> json_member(dicts[i][j])]
                  \o <<Punct("}")>>])
    \o <<Punct("]")>>

\* json.loads of such a text: the list of dicts it denotes.
json_value(tok) ==
    IF tok.t = "true" THEN PyBool(TRUE)
    ELSE IF tok.t = "false" THEN PyBool(FALSE)
    ELSE [t |-> tok.t, v |-> tok.v]
RECURSIVE json_loads_from(_, _, _, _)
json_loads_from(text, i, dict, list) ==
    IF i > Len(text) THEN list
    ELSE IF text[i].t \in {"[", "]"} THEN json_loads_from(text, i + 1, dict, list)
    ELSE IF text[i].t = "{" THEN json_loads_from(text, i + 1, <<>>, list)
    ELSE IF text[i].t = "}" THEN json_loads_from(text, i + 1, <<>>, Append(list, dict))
    ELSE json_loads_from(text, i + 1, (text[i].k :> json_value(text[i])) @@ dict, list)
json_loads(text) == json_loads_from(text, 1, <<>>, <<>>)

Map(f(_), s) == [i \in 1..Len(s) |-> f(s[i])]
DumpHut(h) == model_dump(h, SavedHutFields)
DumpSegment(g) == model_dump(g, SavedSegmentFields)
DumpStep(g) == model_dump(g, SavedStepFields)

RECURSIVE sum_of(_, _)
sum_of(segments, field) ==
    IF segments = <<>> THEN 0 ELSE Head(segments)[field].v[1] + sum_of(Tail(segments), field)

\* An existence query that never finds the code.
match_itinerary_blind(I, code) == {}

\* MATCH (i:Itinerary {code: $code}) RETURN i
match_itinerary(I, code) == {i \in 1..Len(I) : I[i].code = code}

\* The Itinerary node that CREATE writes for the request under the code: a
\* property given null is not stored.  request and checked_at are not
\* properties: they keep what was submitted and how many nodes there were
\* when the save last looked for the code.
create_itinerary(request, code, checked_at) ==
    [code |-> code,
     start_date |-> request.start_date,
     max_distance |-> request.max_distance,
     max_segments |-> request.max_segments,
     expedition_name |-> request.expedition_name,
     huts |-> json_dumps(Map(DumpHut, request.huts)),
     segments |-> json_dumps(Map(DumpSegment, request.segments)),
     steps |-> json_dumps(IF request.steps # None /\ request.steps[1] # <<>>
                          THEN Map(DumpStep, request.steps[1]) ELSE <<>>),
     total_distance |-> sum_of(request.segments, "distance_km"),
     total_gain |-> sum_of(request.segments, "elevation_gain"),
     total_loss |-> sum_of(request.segments, "elevation_loss"),
     huts_count |-> Len(request.huts),
     request |-> request,
     checked_at |-> checked_at]

\* SaveItineraryRequest: the request object pydantic builds from a body.
SaveItineraryRequest(body) ==
    [huts |-> Map(SavedHut, body.huts),
     segments |-> Map(SavedSegment, body.segments),
     steps |-> IF body.steps = None THEN None ELSE Some(Map(SavedStep, body.steps[1])),
     start_date |-> body.start_date,
     max_distance |-> body.max_distance,
     max_segments |-> body.max_segments,
     expedition_name |-> body.expedition_name]

NoRequest ==
    [huts |-> <<>>, segments |-> <<>>, steps |-> None, start_date |-> "",
     max_distance |-> None, max_segments |-> None, expedition_name |-> None]
SavIdle == [pc |-> "idle", request |-> NoRequest, code |-> <<>>, attempt |-> 0, checked_at |-> 0]

\* A loop that allows one more turn.
max_attempts_plus_one == 10 + 1

\* max_attempts = 10
max_attempts == 10
\* The Itinerary nodes a behaviour may come to hold.
MaxItins == 2

\* save_itinerary up to its first statement: the first candidate code.  A
\* save is followed while the store has room for its node, or when every
\* code that can be drawn is taken already.
save_itinerary_begin(p, body) ==
    /\ sav[p].pc = "idle"
    /\ \/ Len(itins) + Cardinality({q \in Procs : sav[q].pc # "idle"}) < MaxItins
       \/ /\ \A c \in generate_unique_code : match_itinerary(itins, c) # {}
          /\ \A q \in Procs : sav[q].pc = "idle"
    /\ \E c \in generate_unique_code :
          sav' = [sav EXCEPT ![p] = [pc |-> "check", request |-> SaveItineraryRequest(body),
                                     code |-> c, attempt |-> 0, checked_at |-> 0]]
    /\ UNCHANGED <<variant, admin_token, ors_api_key, huts, links, imp, resp, itins, job, db, kml_storage, gpx_storage>>

\* One turn of the for loop: the existence query, then break, or another
\* candidate, or the else branch of the loop after the last turn.
save_itinerary_check(p) ==
    /\ sav[p].pc = "check"
    /\ IF match_itinerary(itins, sav[p].code) = {}
       THEN /\ sav' = [sav EXCEPT ![p].pc = "create", ![p].checked_at = Len(itins)]
            /\ UNCHANGED resp
       ELSE IF sav[p].attempt + 1 < max_attempts
       THEN /\ \E c \in generate_unique_code :
                  sav' = [sav EXCEPT ![p].code = c, ![p].attempt = @ + 1]
            /\ UNCHANGED resp
       ELSE /\ sav' = [sav EXCEPT ![p] = SavIdle]
            /\ resp' = Response("save_itinerary", NULL, 500, TRUE,
                                [code |-> <<>>, huts_count |-> 0, total_distance |-> 0])
    /\ UNCHANGED <<variant, admin_token, ors_api_key, huts, links, imp, itins, job, db, kml_storage, gpx_storage>>

\* The CREATE statement and the response.
save_itinerary_create(p) ==
    /\ sav[p].pc = "create"
    /\ itins' = Append(itins, create_itinerary(sav[p].request, sav[p].code, sav[p].checked_at))
    /\ resp' = Response("save_itinerary", NULL, 200, TRUE,
                        [code |-> sav[p].code, huts_count |-> Len(sav[p].request.huts),
                         total_distance |-> sum_of(sav[p].request.segments, "distance_km")])
    /\ sav' = [sav EXCEPT ![p] = SavIdle]
    /\ UNCHANGED <<variant, admin_token, ors_api_key, huts, links, imp, job, db, kml_storage, gpx_storage>>

\* str.upper() and str.strip()
Upper(c) == IF c \in 97..122 THEN c - 32 ELSE c
upper(s) == [i \in 1..Len(s) |-> Upper(s[i])]
Whitespace == {9, 10, 13, 32}
RECURSIVE lstrip(_)
lstrip(s) == IF s # <<>> /\ Head(s) \in Whitespace THEN lstrip(Tail(s)) ELSE s
RECURSIVE rstrip(_)
rstrip(s) ==
    IF s # <<>> /\ s[Len(s)] \in Whitespace THEN rstrip(SubSeq(s, 1, Len(s) - 1)) ELSE s
strip(s) == rstrip(lstrip(s))

\* What load_itinerary answers from node n: LoadItineraryResponse needs
\* max_distance and max_segments, and a node saved without them has neither
\* property (the except branch answers 500).
load_itinerary_result(code, n) ==
    LET steps_data == json_loads(n.steps)
    IN  IF n.max_distance = None \/ n.max_segments = None
        THEN [status |-> 500, body |-> [code |-> code]]
        ELSE [status |-> 200,
              body |-> [code |-> code,
                        start_date |-> n.start_date,
                        max_distance |-> n.max_distance[1],
                        max_segments |-> n.max_segments[1],
                        expedition_name |-> n.expedition_name,
                        huts |-> Map(SavedHut, json_loads(n.huts)),
                        segments |-> Map(SavedSegment, json_loads(n.segments)),
                        steps |-> IF steps_data # <<>> THEN Some(Map(SavedStep, steps_data))
                                  ELSE None]]

\* The answer with what the request was and the codes it has looked up in the
\* database.
LoadAnswer(input, looked_up, body) ==
    [f \in DOMAIN body \cup {"input", "looked_up"} |->
        IF f = "input" THEN input ELSE IF f = "looked_up" THEN looked_up ELSE body[f]]

\* load_itinerary.  result.single() answers with one of the nodes matched.
load_itinerary(input) ==
    /\ LET code == strip(upper(input))
       IN  IF Len(code) # CODE_LENGTH
           THEN resp' = Response("load_itinerary", NULL, 400, TRUE,
                                 LoadAnswer(input, <<>>, [code |-> code]))
           ELSE IF match_itinerary(itins, code) = {}
           THEN resp' = Response("load_itinerary", NULL, 404, TRUE,
                                 LoadAnswer(input, <<code>>, [code |-> code]))
           ELSE \E i \in match_itinerary(itins, code) :
                  resp' = Response("load_itinerary", NULL,
                                   load_itinerary_result(code, itins[i]).status, TRUE,
                                   LoadAnswer(input, <<code>>,
                                              load_itinerary_result(code, itins[i]).body))
    /\ UNCHANGED <<variant, admin_token, ors_api_key, huts, links, imp, itins, sav, job, db, kml_storage, gpx_storage>>

\* ------------------------------------------------------------------ the enrichment job
\* BATCH_SIZE = 20
BATCH_SIZE == 20

\* What a call of the routing service may come to.
OrsCallOutcomes ==
    {"network_error", "rate_limited", "http_error", "bad_json", "routes", "routes_no_distance",
     "routes_no_geometry", "features", "features_no_distance", "unexpected"}

\* A fetch that takes every relationship without geometry, marked or not.
links_to_enrich_ignoring_skip(L) == {l \in L : l.geometry_polyline = NULL}

\* fetch_links_to_enrich: the relationships without geometry that are not
\* marked ors_skip (every hut has coordinates), as records of the hut_ids
\* of their ends, LIMIT $limit of them in the order the database gives.
links_to_enrich(L) == {l \in L : l.geometry_polyline = NULL /\ ~l.ors_skip}
fetch_record(H, l) == [from_id |-> NodeOf(H, l.src).hut_id, to_id |-> NodeOf(H, l.dst).hut_id]
fetch_links_to_enrich(H, L, limit) ==
    LET E == links_to_enrich(L)
        n == IF Cardinality(E) < limit THEN Cardinality(E) ELSE limit
    IN  {[i \in 1..n |-> fetch_record(H, s[i])] :
            s \in {t \in [1..n -> E] : \A i, j \in 1..n : i # j => t[i] # t[j]}}

\* A delete_self_link that looks for relationships from a node to itself.
delete_self_link_same_node(H, L, hut_id) ==
    {l \in L : ~(l.src = l.dst /\ NodeOf(H, l.src).hut_id = hut_id)}

\* delete_self_link: MATCH (a:Hut {hut_id})-[l:LINK]->(b:Hut {hut_id}) DELETE l
delete_self_link(H, L, hut_id) ==
    {l \in L : ~(NodeOf(H, l.src).hut_id = hut_id /\ NodeOf(H, l.dst).hut_id = hut_id)}

\* A call_ors that takes HTTP 429 for one more failed pair.
call_ors_lenient(outcome) ==
    IF outcome = "routes"
    THEN [kind |-> "result", distance_km |-> OrsSummary.distance \div MetersPerKm,
          dplus_m |-> OrsSummary.ascent, dminus_m |-> OrsSummary.descent,
          geometry_polyline |-> "poly"]
    ELSE IF outcome = "features"
    THEN [kind |-> "result", distance_km |-> OrsSummary.distance \div MetersPerKm,
          dplus_m |-> OrsSummary.ascent, dminus_m |-> OrsSummary.descent,
          geometry_polyline |-> ""]
    ELSE [kind |-> "None"]

\* call_ors: RuntimeError on HTTP 429, None when the call fails for this
\* pair, else (distance_km, dplus_m, dminus_m, geometry_polyline).
call_ors(outcome) ==
    IF outcome = "rate_limited" THEN [kind |-> "RuntimeError"]
    ELSE IF outcome = "routes"
    THEN [kind |-> "result", distance_km |-> OrsSummary.distance \div MetersPerKm,
          dplus_m |-> OrsSummary.ascent, dminus_m |-> OrsSummary.descent,
          geometry_polyline |-> "poly"]
    ELSE IF outcome = "features"
    THEN [kind |-> "result", distance_km |-> OrsSummary.distance \div MetersPerKm,
          dplus_m |-> OrsSummary.ascent, dminus_m |-> OrsSummary.descent,
          geometry_polyline |-> ""]
    ELSE [kind |-> "None"]

\* "ORS error (voir logs du script)"
OrsErrorReason ==
    <<79, 82, 83, 32, 101, 114, 114, 111, 114, 32, 40, 118, 111, 105, 114, 32, 108, 111, 103,
      115, 32, 100, 117, 32, 115, 99, 114, 105, 112, 116, 41>>
\* reason[:500]
ReasonMaxLen == 500
Truncate(reason, n) == SubSeq(reason, 1, IF Len(reason) < n THEN Len(reason) ELSE n)

\* An update that writes the distance and the climbs and leaves the geometry.
update_link_without_geometry(H, L, from_id, to_id, r) ==
    {IF NodeOf(H, l.src).hut_id = from_id /\ NodeOf(H, l.dst).hut_id = to_id
     THEN [l EXCEPT !.distance_km = r.distance_km, !.dplus_m = r.dplus_m,
                    !.dminus_m = r.dminus_m]
     ELSE l : l \in L}

\* mark_link_as_failed and update_link_in_neo4j: SET on every relationship
\* between a node with hut_id from_id and one with hut_id to_id.
mark_link_as_failed(H, L, from_id, to_id, reason) ==
    {IF NodeOf(H, l.src).hut_id = from_id /\ NodeOf(H, l.dst).hut_id = to_id
     THEN [l EXCEPT !.ors_skip = TRUE, !.ors_reason = Some(Truncate(reason, ReasonMaxLen))]
     ELSE l : l \in L}
update_link_in_neo4j(H, L, from_id, to_id, r) ==
    {IF NodeOf(H, l.src).hut_id = from_id /\ NodeOf(H, l.dst).hut_id = to_id
     THEN [l EXCEPT !.distance_km = r.distance_km, !.dplus_m = r.dplus_m,
                    !.dminus_m = r.dminus_m, !.geometry_polyline = r.geometry_polyline]
     ELSE l : l \in L}

\* The job: where main() stands (fetch: about to fetch a batch; batch: in the
\* for loop; done, aborted: returned), the records of the batch still to
\* process, and what it has done so far: routing calls, sleeps, fetches,
\* the outcome of its last turn, the records it has processed in this run.
JobIdle == [pc |-> "idle", batch |-> <<>>, calls |-> 0, sleeps |-> 0, fetches |-> 0,
            last |-> "none", deleted |-> 0, processed |-> {}]

\* main(): the script is run, for the first time or once more.
main ==
    /\ job.pc \in {"idle", "done", "aborted"}
    /\ job' = [JobIdle EXCEPT !.pc = "fetch"]
    /\ UNCHANGED <<variant, admin_token, ors_api_key, huts, links, imp, resp, itins, sav, db, kml_storage, gpx_storage>>

\* main(): one fetch of the while loop.
main_fetch ==
    /\ job.pc = "fetch"
    /\ \E b \in fetch_links_to_enrich(huts, links, BATCH_SIZE) :
          job' = [job EXCEPT !.pc = IF b = <<>> THEN "done" ELSE "batch", !.batch = b,
                             !.fetches = @ + 1, !.last = "fetch"]
    /\ UNCHANGED <<variant, admin_token, ors_api_key, huts, links, imp, resp, itins, sav, db, kml_storage, gpx_storage>>

\* main(): one turn of the for loop, on the first record left.
main_record(outcome) ==
    /\ job.pc = "batch"
    /\ LET rec == Head(job.batch)
           rest == Tail(job.batch)
           after == IF rest = <<>> THEN "fetch" ELSE "batch"
       IN  IF rec.from_id = rec.to_id
           THEN /\ links' = delete_self_link(huts, links, rec.from_id)
                /\ job' = [job EXCEPT !.pc = after, !.batch = rest, !.last = "self_link",
                             !.processed = @ \cup {rec},
                             !.deleted = Cardinality(links \ delete_self_link(huts, links, rec.from_id))]
           ELSE IF call_ors(outcome).kind = "RuntimeError"
           THEN /\ links' = links
                /\ job' = [job EXCEPT !.pc = "aborted", !.calls = @ + 1, !.last = outcome]
           ELSE IF call_ors(outcome).kind = "None"
           THEN /\ links' = mark_link_as_failed(huts, links, rec.from_id, rec.to_id,
                                                 OrsErrorReason)
                /\ job' = [job EXCEPT !.pc = after, !.batch = rest, !.calls = @ + 1,
                                      !.last = outcome, !.processed = @ \cup {rec}]
           ELSE /\ links' = update_link_in_neo4j(huts, links, rec.from_id, rec.to_id,
                                                  call_ors(outcome))
                /\ job' = [job EXCEPT !.pc = after, !.batch = rest, !.calls = @ + 1,
                                      !.sleeps = @ + 1, !.last = outcome,
                                      !.processed = @ \cup {rec}]
    /\ UNCHANGED <<variant, admin_token, ors_api_key, huts, imp, resp, itins, sav, db, kml_storage, gpx_storage>>

\* ------------------------------------------------------------------ database access
\* The driver's errors that run_query and run_write_query retry on.
TransientErrors == {"SessionExpired", "ServiceUnavailable", "TransientError"}
\* What one execution of a query in a session may end with.
DbOutcomes == {"ok"} \cup TransientErrors \cup {"CypherSyntaxError"}
DbFunctions == {"run_query", "run_write_query"}

\* What a successful execution hands back: the list of the records' data for
\* run_query, the single record's data or None for run_write_query.
DbData(fn) ==
    IF fn = "run_query" THEN {<<>>, <<"r1">>, <<"r1", "r2">>} ELSE {None, Some("r1")}

\* What the function returns when its loop ends without an execution.
DbFallthrough(fn) == IF fn = "run_query" THEN <<>> ELSE None

RECURSIVE Pow2(_)
Pow2(n) == IF n = 0 THEN 1 ELSE 2 * Pow2(n - 1)

\* A wait that grows by two seconds per attempt instead of doubling.
wait_time_linear(attempt) == 2 * attempt

\* wait_time = 2 ** attempt
wait_time(attempt) == Pow2(attempt)

DbIdle ==
    [pc |-> "idle", fn |-> "run_query", max_retries |-> 0, attempt |-> 0,
     executed |-> 0, waits |-> <<>>, error |-> NULL, result |-> <<>>]

\* A caller enters run_query or run_write_query: for attempt in range(max_retries).
run_query_call(fn, max_retries) ==
    /\ db.pc # "attempt"
    /\ db' = IF max_retries <= 0
             THEN [DbIdle EXCEPT !.pc = "returned", !.fn = fn, !.max_retries = max_retries,
                                 !.result = DbFallthrough(fn)]
             ELSE [DbIdle EXCEPT !.pc = "attempt", !.fn = fn, !.max_retries = max_retries]
    /\ UNCHANGED <<variant, admin_token, ors_api_key, huts, links, imp, resp, itins, sav, job,
                   kml_storage, gpx_storage>>

\* One turn of the loop: the query runs in a session; a success returns, a
\* transient error on the last attempt and every other error are raised, a
\* transient error before the last attempt sleeps and goes round again.
run_query_attempt(outcome, data) ==
    /\ db.pc = "attempt"
    /\ db' = IF outcome = "ok"
             THEN [db EXCEPT !.pc = "returned", !.executed = @ + 1, !.result = data]
             ELSE IF outcome \notin TransientErrors \/ db.attempt = db.max_retries - 1
             THEN [db EXCEPT !.pc = "raised", !.executed = @ + 1, !.error = outcome]
             ELSE [db EXCEPT !.executed = @ + 1, !.attempt = @ + 1, !.error = outcome,
                             !.waits = Append(@, wait_time(db.attempt))]
    /\ UNCHANGED <<variant, admin_token, ors_api_key, huts, links, imp, resp, itins, sav, job,
                   kml_storage, gpx_storage>>

\* ------------------------------------------------------------------ export
\* A document is the sequence of the pieces of its text: the markup the
\* f-string writes, and the values it interpolates as they are, unescaped.
\* Numbers of the payload are in tenths (125 is 12.5).
Tag(t) == [k |-> "tag", v |-> t]
Text(t) == [k |-> "text", v |-> t]
Value(k, v) == [k |-> k, v |-> v]

\* int(x): the whole part, towards zero.
int(x) == IF x >= 0 THEN x \div 10 ELSE -((-x) \div 10)

\* The style of the i-th of n huts (i from 1): first, last, rest day, other.
hut_role(i, n, is_rest_day) ==
    IF i = 1 THEN "start" ELSE IF i = n THEN "end" ELSE IF is_rest_day THEN "rest" ELSE "hut"

\* The lines of a hut's description: its day, its country, the segment that
\* leads to it when the payload has one, the rest-day mark.
description_parts(request, i) ==
    [day |-> i - 1,
     country |-> request.huts[i].country_code,
     segment |-> IF i > 1 /\ i - 1 <= Len(request.segments)
                 THEN Some([distance_km |-> request.segments[i - 1].distance_km,
                            gain |-> int(request.segments[i - 1].elevation_gain),
                            loss |-> int(request.segments[i - 1].elevation_loss)])
                 ELSE None,
     rest |-> request.huts[i].is_rest_day]

\* Dates.  datetime.fromisoformat on the form YYYY-MM-DD: the date, or None
\* when the text is not a date (ValueError).
IsDigit(c) == c \in 48..57
RECURSIVE Number(_)
Number(s) ==
    IF s = <<>> THEN 0 ELSE 10 * Number(SubSeq(s, 1, Len(s) - 1)) + (s[Len(s)] - 48)
IsLeap(y) == (y % 4 = 0 /\ y % 100 # 0) \/ y % 400 = 0
DaysInMonth(y, m) ==
    IF m = 2 THEN (IF IsLeap(y) THEN 29 ELSE 28)
    ELSE IF m \in {4, 6, 9, 11} THEN 30 ELSE 31
IsDate(y, m, d) == y >= 1 /\ m \in 1..12 /\ d >= 1 /\ d <= DaysInMonth(y, m)
fromisoformat(s) ==
    IF /\ Len(s) = 10
       /\ s[5] = 45 /\ s[8] = 45
       /\ \A i \in {1, 2, 3, 4, 6, 7, 9, 10} : IsDigit(s[i])
       /\ IsDate(Number(SubSeq(s, 1, 4)), Number(SubSeq(s, 6, 7)), Number(SubSeq(s, 9, 10)))
    THEN Some([year |-> Number(SubSeq(s, 1, 4)), month |-> Number(SubSeq(s, 6, 7)),
               day |-> Number(SubSeq(s, 9, 10))])
    ELSE None

\* date.replace(day=...): the date with that day of the same month, or None
\* when the month has no such day (ValueError).
replace_day(date, day) ==
    IF IsDate(date.year, date.month, day) THEN Some([date EXCEPT !.day = day]) ELSE None

\* date.toordinal(): the days from 0001-01-01, which is day 1, and
\* date.weekday(): Monday is 0.
RECURSIVE DaysBeforeMonth(_, _)
DaysBeforeMonth(y, m) ==
    IF m = 1 THEN 0 ELSE DaysBeforeMonth(y, m - 1) + DaysInMonth(y, m - 1)
toordinal(date) ==
    LET y == date.year - 1
    IN  365 * y + (y \div 4) - (y \div 100) + (y \div 400)
        + DaysBeforeMonth(date.year, date.month) + date.day
weekday(date) == (toordinal(date) + 6) % 7

\* strftime("%a %d %b"): the day of the week, the day of the month, the month.
strftime_a_d_b(date) == <<"date", weekday(date), date.day, date.month>>

\* The date label of the hut of day i in the KML description: the start
\* date with its day of the month replaced by day + i, "Jour i" when the
\* try block raises.
kml_date_str(start_date, i) ==
    LET start == fromisoformat(start_date)
        day_date == IF start = None THEN None ELSE replace_day(start[1], start[1].day + i)
    IN  IF day_date = None THEN <<"Jour", i>> ELSE strftime_a_d_b(day_date[1])

\* The totals both documents report: the distance with one decimal, the gain
\* and the loss as int(sum(...)), the days.
export_totals(request) ==
    <<Value("total_distance", SumOver(request.segments, "distance_km")),
      Value("total_gain", int(SumOver(request.segments, "elevation_gain"))),
      Value("total_loss", int(SumOver(request.segments, "elevation_loss"))),
      Value("num_days", Len(request.huts) - 1)>>

generate_kml(request) ==
    LET n == Len(request.huts)
        coordinates == [i \in 1..n |->
                          Value("coordinates", <<request.huts[i].longitude,
                                                 request.huts[i].latitude>>)]
        placemark(i) ==
            <<Tag("<Placemark>"), Tag("<name>")>> \o request.huts[i].name
            \o <<Tag("</name>"),
                 Value("date", kml_date_str(request.start_date, i - 1)),
                 Value("description", description_parts(request, i)),
                 Value("styleUrl", hut_role(i, n, request.huts[i].is_rest_day)),
                 Tag("<Point>"), coordinates[i], Tag("</Point>"), Tag("</Placemark>")>>
    IN  <<Tag("<Document>"), Tag("<name>")>> \o request.expedition_name
        \o <<Tag("</name>"), Value("start_date", request.start_date)>>
        \o export_totals(request)
        \o <<Tag("<Placemark>"), Tag("<LineString>")>> \o coordinates
        \o <<Tag("</LineString>"), Tag("</Placemark>")>>
        \o Flatten([i \in 1..n |-> placemark(i)])
        \o <<Tag("</Document>")>>

\* now: datetime.utcnow() at the time of the call.
generate_gpx(request, now) ==
    LET n == Len(request.huts)
        waypoint(i) ==
            <<Value("<wpt", <<request.huts[i].latitude, request.huts[i].longitude>>),
              Tag("<name>")>> \o request.huts[i].name
            \o <<Tag("</name>"),
                 Value("desc", description_parts(request, i)),
                 Value("sym", hut_role(i, n, request.huts[i].is_rest_day)),
                 Tag("</wpt>")>>
        trackpoints == [i \in 1..n |->
                          Value("<trkpt", <<request.huts[i].latitude,
                                            request.huts[i].longitude>>)]
    IN  <<Tag("<gpx>"), Tag("<metadata>"), Tag("<name>")>> \o request.expedition_name
        \o <<Tag("</name>")>> \o export_totals(request)
        \o <<Value("time", now), Tag("</metadata>")>>
        \o Flatten([i \in 1..n |-> waypoint(i)])
        \o <<Tag("<trk>"), Tag("<name>")>> \o request.expedition_name
        \o <<Tag("</name>"), Tag("<trkseg>")>> \o trackpoints
        \o <<Tag("</trkseg>"), Tag("</trk>"), Tag("</gpx>")>>

\* kml_storage and gpx_storage: a dict from identifier to entry, as the set
\* of its entries.  issued is not in the source: it keeps the document of the
\* first create that returned the identifier since it was last absent.
NoDocuments == {}
StoredIds(storage) == {e.id : e \in storage}
Stored(storage, id) == CHOOSE e \in storage : e.id = id

\* storage[id] = {...}: the entry of id, new or replaced.
store_document(storage, id, content) ==
    {e \in storage : e.id # id}
    \cup {[id |-> id, content |-> content,
           issued |-> IF id \in StoredIds(storage) THEN Stored(storage, id).issued
                      ELSE content]}

\* del storage[id]
delete_document(storage, id) == {e \in storage : e.id # id}

\* create_kml: kml_id is str(uuid.uuid4())[:8].
create_kml(request, kml_id) ==
    /\ kml_storage' = store_document(kml_storage, kml_id, generate_kml(request))
    /\ resp' = Response("create_kml", NULL, 200, TRUE,
                        [id |-> kml_id, request |-> request,
                         content |-> generate_kml(request)])
    /\ UNCHANGED <<variant, admin_token, ors_api_key, huts, links, imp, itins, sav, job, db,
                   gpx_storage>>

get_kml(kml_id) ==
    /\ resp' = IF kml_id \notin StoredIds(kml_storage)
               THEN Response("get_kml", NULL, 404, TRUE, [id |-> kml_id])
               ELSE Response("get_kml", NULL, 200, TRUE,
                             [id |-> kml_id, content |-> Stored(kml_storage, kml_id).content])
    /\ UNCHANGED <<variant, admin_token, ors_api_key, huts, links, imp, itins, sav, job, db,
                   kml_storage, gpx_storage>>

delete_kml(kml_id) ==
    /\ IF kml_id \in StoredIds(kml_storage)
       THEN /\ kml_storage' = delete_document(kml_storage, kml_id)
            /\ resp' = Response("delete_kml", NULL, 200, TRUE, [id |-> kml_id])
       ELSE /\ resp' = Response("delete_kml", NULL, 404, TRUE, [id |-> kml_id])
            /\ UNCHANGED kml_storage
    /\ UNCHANGED <<variant, admin_token, ors_api_key, huts, links, imp, itins, sav, job, db,
                   gpx_storage>>

\* create_gpx: gpx_id is str(uuid.uuid4())[:8].
create_gpx(request, gpx_id, now) ==
    /\ gpx_storage' = store_document(gpx_storage, gpx_id, generate_gpx(request, now))
    /\ resp' = Response("create_gpx", NULL, 200, TRUE,
                        [id |-> gpx_id, request |-> request,
                         content |-> generate_gpx(request, now)])
    /\ UNCHANGED <<variant, admin_token, ors_api_key, huts, links, imp, itins, sav, job, db,
                   kml_storage>>

get_gpx(gpx_id) ==
    /\ resp' = IF gpx_id \notin StoredIds(gpx_storage)
               THEN Response("get_gpx", NULL, 404, TRUE, [id |-> gpx_id])
               ELSE Response("get_gpx", NULL, 200, TRUE,
                             [id |-> gpx_id, content |-> Stored(gpx_storage, gpx_id).content])
    /\ UNCHANGED <<variant, admin_token, ors_api_key, huts, links, imp, itins, sav, job, db,
                   kml_storage, gpx_storage>>

delete_gpx(gpx_id) ==
    /\ IF gpx_id \in StoredIds(gpx_storage)
       THEN /\ gpx_storage' = delete_document(gpx_storage, gpx_id)
            /\ resp' = Response("delete_gpx", NULL, 200, TRUE, [id |-> gpx_id])
       ELSE /\ resp' = Response("delete_gpx", NULL, 404, TRUE, [id |-> gpx_id])
            /\ UNCHANGED gpx_storage
    /\ UNCHANGED <<variant, admin_token, ors_api_key, huts, links, imp, itins, sav, job, db,
                   kml_storage>>


\* ------------------------------------------------------------------ the admin API
NoResp == Response("none", NULL, 0, FALSE, NULL)
Limits == {1, 20}

Init ==
    /\ variant \in Variants
    /\ admin_token \in {NULL, Secret}
    /\ ors_api_key \in {NULL, "key"}
    /\ huts = {}
    /\ links = {}
    /\ imp = [p \in Procs |-> Idle]
    /\ resp = NoResp
    /\ itins = <<>>
    /\ sav = [p \in Procs |-> SavIdle]
    /\ job = JobIdle
    /\ db = DbIdle
    /\ kml_storage = NoDocuments
    /\ gpx_storage = NoDocuments

\* The requests of the admin API: imports of one name, links between the
\* first two hut_ids with one set of values.
Next ==
    \/ \E cred \in Creds, q \in Queries, limit \in Limits : fuzzy_search(cred, q, limit)
    \/ \E cred \in Creds, q \in Queries, places \in {"hit"},
          around \in {"empty", "hit"}, direct \in {"network_error", "hit"} :
          overpass_search(cred, q, places, around, direct)
    \/ \E cred \in Creds, outcome \in OrsOutcomes : preview_route(cred, outcome)
    \/ \E p \in Procs, cred \in Creds, c \in Coordinates :
          import_hut_read(p, cred, <<65, 98>>, c[1], c[2])
    \/ \E p \in Procs : import_hut_create(p)
    \/ \E cred \in Creds, from_id, to_id \in 1..2, bidirectional \in BOOLEAN :
          create_link(cred, from_id, to_id, 1, 0, 1, NULL, bidirectional)

Spec == Init /\ [][Next]_vars

\* ------------------------------------------------------------------ C3 .. C6
HutIdOf(n) == NodeOf(huts, n).hut_id
LinksBetween(from_id, to_id) ==
    {l \in links : HutIdOf(l.src) = from_id /\ HutIdOf(l.dst) = to_id}

\* C3: after any sequence of create-link requests there is at most one LINK
\* relationship per ordered (from_hut_id, to_hut_id) pair, and after a
\* create-link request it holds the values of that request.
C3_OneLinkPerPair ==
    /\ \A l1, l2 \in links :
          (HutIdOf(l1.src) = HutIdOf(l2.src) /\ HutIdOf(l1.dst) = HutIdOf(l2.dst)) => l1 = l2
    /\ (resp.op = "create_link" /\ resp.status = 201 /\ ~resp.body.bidirectional) =>
          \A l \in LinksBetween(resp.body.from_hut_id, resp.body.to_hut_id) :
              /\ l.distance_km = resp.body.distance_km
              /\ l.dplus_m = resp.body.dplus_m
              /\ l.dminus_m = resp.body.dminus_m

\* C4: a create-link request with bidirectional = true between two existing
\* huts A and B leaves an A->B and a B->A relationship with the request's
\* distance, the reverse one with dplus_m and dminus_m exchanged.
C4_BidirectionalSwapped ==
    (/\ resp.op = "create_link" /\ resp.status = 201 /\ resp.body.bidirectional
     /\ resp.body.from_hut_id # resp.body.to_hut_id) =>
        /\ LinksBetween(resp.body.from_hut_id, resp.body.to_hut_id) # {}
        /\ LinksBetween(resp.body.to_hut_id, resp.body.from_hut_id) # {}
        /\ \A f \in LinksBetween(resp.body.from_hut_id, resp.body.to_hut_id) :
              f.distance_km = resp.body.distance_km
        /\ \A b \in LinksBetween(resp.body.to_hut_id, resp.body.from_hut_id) :
              /\ b.distance_km = resp.body.distance_km
              /\ b.dplus_m = resp.body.dminus_m
              /\ b.dminus_m = resp.body.dplus_m

\* C5: with an admin token configured, an admin request that presents no
\* credential or another one is answered 401 and never admitted, and one
\* that presents the token is admitted.
C5_AdminGate ==
    (resp.op \in AdminOps /\ admin_token # NULL) =>
        /\ resp.cred # admin_token => (resp.status = 401 /\ ~resp.admitted)
        /\ resp.cred = admin_token => resp.admitted

\* C5, second half: a request the gate refuses changes no Hut node and no
\* LINK relationship.
C5_RefusedMutatesNothing ==
    [][(resp'.op \in AdminOps /\ ~resp'.admitted) => (huts' = huts /\ links' = links)]_vars

\* C6: no two Hut nodes carry the same hut_id, however the statements of
\* concurrent imports interleave.
C6_UniqueHutIds ==
    \A a, b \in huts : a.hut_id = b.hut_id => a = b

\* ------------------------------------------------------------------ the traversal
\* Graphs to traverse: three Hut nodes, the third one either a hut of its own
\* or a second node carrying the start's hut_id, and LINK relationships as
\* create_link leaves them (one per ordered pair of nodes at most; a
\* relationship from a node to itself is what the flat draft writes when
\* from_hut_id = to_hut_id).
MaxEdges == 3
ReachKms == {1, 3}
ReachNids == 1..3
ReachHutSets ==
    {{[nid |-> 1, hut_id |-> 1, name |-> <<65, 98>>],
      [nid |-> 2, hut_id |-> 2, name |-> <<99, 100>>],
      [nid |-> 3, hut_id |-> third, name |-> <<65, 98>>]} : third \in {3, 1}}
ReachEdges == {<<a, b>> \in ReachNids \X ReachNids : a # b \/ a = 1}
ReachLink(a, b, d) == [NewLink({}, a, b) EXCEPT !.distance_km = d]
ReachGraphs ==
    UNION {{{ReachLink(e[1], e[2], w[e]) : e \in E} :
              w \in {x \in [E -> ReachKms] : \A e \in E : e[1] = e[2] => x[e] = 1}} :
            E \in {X \in SUBSET ReachEdges : Cardinality(X) <= MaxEdges}}

InitReach ==
    /\ variant \in Variants
    /\ admin_token = Secret
    /\ ors_api_key = NULL
    /\ huts \in ReachHutSets
    /\ links \in ReachGraphs
    /\ imp = [p \in Procs |-> Idle]
    /\ resp = NoResp
    /\ itins = <<>>
    /\ sav = [p \in Procs |-> SavIdle]
    /\ job = JobIdle
    /\ db = DbIdle
    /\ kml_storage = NoDocuments
    /\ gpx_storage = NoDocuments

NextReach ==
    \E start_id \in {1, 2, 9}, max_distance_km \in {0, 2, 4}, max_segments \in {0, 1, 2, 5} :
        get_reachable_huts(start_id, max_distance_km, max_segments)

SpecReach == InitReach /\ [][NextReach]_vars

\* The ends of the walks of at most k relationships from node s whose length
\* stays within cap, each with the length of such a walk.
RECURSIVE WalkEnds(_, _, _, _)
WalkEnds(L, s, k, cap) ==
    IF k = 0 THEN {<<s, 0>>}
    ELSE LET prev == WalkEnds(L, s, k - 1, cap)
         IN  prev \cup {<<l.dst, e[2] + l.distance_km>> : <<e, l>> \in
                          {<<x, y>> \in prev \X L :
                              y.src = x[1] /\ x[2] + y.distance_km <= cap}}

\* The lengths of the directed paths within both limits from a start node
\* (a node carrying hut_id start_id) to another node dest.
PathLengths(start_id, dest, max_distance_km, max_segments) ==
    UNION {{e[2] : e \in {x \in WalkEnds(links, s.nid, Min({max_segments, 5}), max_distance_km) :
                              x[1] = dest}} :
            s \in {h \in MatchHut(huts, start_id) : h.nid # dest}}

ReachAnswered ==
    /\ resp.op = "get_reachable_huts"
    /\ resp.status = 200
    /\ resp.body.max_distance_km >= 1

C2_ShortestPath ==
    ReachAnswered =>
        LET b == resp.body
        IN  \A r \in Range(b.huts) :
              /\ PathLengths(b.hut_id, r.nid, b.max_distance_km, b.max_segments) # {}
              /\ r.total_distance_km =
                   Min(PathLengths(b.hut_id, r.nid, b.max_distance_km, b.max_segments))
              /\ r.segments = Len(r.steps)
              /\ r.segments >= 1 /\ r.segments <= Min({b.max_segments, 5})
              /\ r.total_distance_km = SumOver(r.steps, "distance_km")
              /\ r.steps[1].from_hut_id = b.hut_id
              /\ r.steps[Len(r.steps)].to_hut_id = r.hut_id
              /\ \A i \in 1..(Len(r.steps) - 1) : r.steps[i].to_hut_id = r.steps[i + 1].from_hut_id
              /\ \A i \in 1..Len(r.steps) :
                    \E l \in links : /\ NodeOf(huts, l.src).hut_id = r.steps[i].from_hut_id
                                     /\ NodeOf(huts, l.dst).hut_id = r.steps[i].to_hut_id
                                     /\ l.distance_km = r.steps[i].distance_km

\* A hut is returned by its two-segment path while a longer single
\* relationship from the start to it is within the limits too.
C2_Witness ==
    /\ ReachAnswered
    /\ \E r \in Range(resp.body.huts) :
          /\ r.segments = 2
          /\ \E l \in links : /\ l.dst = r.nid
                               /\ NodeOf(huts, l.src).hut_id = resp.body.hut_id
                               /\ l.distance_km > r.total_distance_km
                               /\ l.distance_km <= resp.body.max_distance_km

\* ------------------------------------------------------------------ saving and loading
\* The bodies submitted: waypoints whose hut_id comes as a number or as
\* text, with and without the optional fields, with and without steps.
HutA ==
    [hut_id |-> PyNum(12), name |-> PyStr(<<65, 98>>), latitude |-> PyNum(67),
     longitude |-> PyNum(18), country_code |-> PyStr(<<83, 69>>), altitude |-> PyNum(900),
     is_rest_day |-> PyBool(FALSE)]
HutB ==
    [hut_id |-> PyStr(<<55>>), name |-> PyStr(<<99, 100>>), latitude |-> PyNum(68),
     longitude |-> PyNum(19), country_code |-> PyNone, altitude |-> PyNone,
     is_rest_day |-> PyBool(TRUE)]
Seg(d, g) ==
    [distance_km |-> PyNum(d), elevation_gain |-> PyNum(300), elevation_loss |-> PyNum(100),
     geometry_polyline |-> g]
StepAB ==
    [from_hut_id |-> PyStr(<<49, 50>>), to_hut_id |-> PyStr(<<55>>), distance_km |-> PyNum(10),
     dplus_m |-> PyNum(300), dminus_m |-> PyNum(100), geometry_polyline |-> PyStr(<<95, 112>>)]
SaveBodies ==
    {[huts |-> <<HutA, HutB, HutA>>, segments |-> <<Seg(10, PyStr(<<95, 112>>)), Seg(5, PyNone)>>,
      steps |-> Some(<<StepAB>>), start_date |-> "2025-07-01", max_distance |-> Some(35),
      max_segments |-> Some(2), expedition_name |-> Some("Kungsleden")],
     [huts |-> <<HutA, HutB, HutA>>, segments |-> <<Seg(10, PyStr(<<95, 112>>)), Seg(5, PyNone)>>,
      steps |-> None, start_date |-> "2025-07-01", max_distance |-> None,
      max_segments |-> Some(2), expedition_name |-> None],
     [huts |-> <<HutB>>, segments |-> <<>>,
      steps |-> Some(<<>>), start_date |-> "2025-08-15", max_distance |-> Some(35),
      max_segments |-> None, expedition_name |-> None]}
LoadInputs ==
    {<<50, 50, 50, 50, 50, 65>>, <<32, 50, 50, 50, 50, 50, 98, 32>>, <<50, 50, 50, 50, 50, 32>>}

InitItin ==
    /\ variant = "routers"
    /\ admin_token = Secret
    /\ ors_api_key = NULL
    /\ huts = {}
    /\ links = {}
    /\ imp = [p \in Procs |-> Idle]
    /\ resp = NoResp
    /\ itins = <<>>
    /\ sav = [p \in Procs |-> SavIdle]
    /\ job = JobIdle
    /\ db = DbIdle
    /\ kml_storage = NoDocuments
    /\ gpx_storage = NoDocuments

NextItin ==
    \/ \E p \in Procs, body \in SaveBodies : save_itinerary_begin(p, body)
    \/ \E p \in Procs : save_itinerary_check(p)
    \/ \E p \in Procs : save_itinerary_create(p)
    \/ \E input \in LoadInputs : load_itinerary(input)

SpecItin == InitItin /\ [][NextItin]_vars

\* C7: no two Itinerary nodes carry the same code, however the existence
\* checks and the creations of concurrent saves interleave.
C7_UniqueCodes ==
    \A i, j \in 1..Len(itins) : itins[i].code = itins[j].code => i = j

\* C7, as the code has it: two Itinerary nodes carry the same code only when
\* the save that created the later one looked for the code before the
\* earlier one was created; a save never takes a code that its own
\* existence check has seen.
C7_UniqueUnlessRaced ==
    \A i, j \in 1..Len(itins) :
        (i < j /\ itins[i].code = itins[j].code) => itins[j].checked_at < i

\* Two saves have raced: two nodes carry one code.
C7_Witness ==
    \E i, j \in 1..Len(itins) : i < j /\ itins[i].code = itins[j].code

\* C8: loading an itinerary by the code its save returned succeeds and
\* gives back the waypoints, the segments and the start date of the request
\* in their order, and segments whose distances add up to the total the
\* save computed, whatever itinerary was saved.
C8_SaveLoadRoundTrip ==
    (resp.op = "load_itinerary" /\ resp.status # 400) =>
        \A i \in match_itinerary(itins, resp.body.code) :
            /\ resp.status = 200
            /\ resp.body.huts = itins[i].request.huts
            /\ resp.body.segments = itins[i].request.segments
            /\ resp.body.start_date = itins[i].request.start_date
            /\ sum_of(resp.body.segments, "distance_km") = itins[i].total_distance

\* ------------------------------------------------------------------ enriching
\* Graphs to enrich: the three Hut nodes of the traversal, the third one a
\* hut of its own or a second node with hut_id 1, and relationships as
\* create_link leaves them, with or without a geometry.
MaxJobLinks == 3
JobEdges == {<<1, 2>>, <<2, 1>>, <<1, 3>>, <<3, 1>>, <<1, 1>>}
JobLink(a, b, g) == [NewLink({}, a, b) EXCEPT !.distance_km = 1, !.geometry_polyline = g]
JobGraphs ==
    UNION {{{JobLink(e[1], e[2], w[e]) : e \in E} : w \in [E -> Polylines]} :
            E \in {X \in SUBSET JobEdges : Cardinality(X) <= MaxJobLinks}}

InitEnrich ==
    /\ variant \in Variants
    /\ admin_token = Secret
    /\ ors_api_key = "key"
    /\ huts \in ReachHutSets
    /\ links \in JobGraphs
    /\ imp = [p \in Procs |-> Idle]
    /\ resp = NoResp
    /\ itins = <<>>
    /\ sav = [p \in Procs |-> SavIdle]
    /\ job = [JobIdle EXCEPT !.pc = "fetch"]
    /\ db = DbIdle
    /\ kml_storage = NoDocuments
    /\ gpx_storage = NoDocuments

NextEnrich ==
    \/ main_fetch
    \/ \E outcome \in OrsCallOutcomes : main_record(outcome)

SpecEnrich == InitEnrich /\ [][NextEnrich]_vars

\* C9: a routing call answered HTTP 429 ends the job at once: it writes
\* nothing to any LINK relationship in that turn, and from then on the job
\* calls no routing, fetches no batch and writes nothing, whatever is left
\* of its batch.
C9_AbortOnRateLimit ==
    [][/\ (job.pc = "batch" /\ job'.calls = job.calls + 1 /\ job'.last = "rate_limited") =>
            (job'.pc = "aborted" /\ links' = links)
       /\ job.pc = "aborted" => (job' = job /\ links' = links)]_vars

\* The job has aborted with records of its batch still to process.
C9_Witness ==
    /\ job.pc = "aborted"
    /\ job.last = "rate_limited"
    /\ Len(job.batch) >= 2
    /\ links_to_enrich(links) # {}

\* C10: a turn on a fetched record whose two hut_ids are equal deletes every
\* LINK relationship between nodes carrying that hut_id and calls no
\* routing.
C10_SelfLinkDeleted ==
    [][(job.pc = "batch" /\ job' # job /\ Head(job.batch).from_id = Head(job.batch).to_id) =>
          /\ links' = {l \in links :
                          ~(/\ HutIdOf(l.src) = Head(job.batch).from_id
                            /\ HutIdOf(l.dst) = Head(job.batch).from_id)}
          /\ job'.calls = job.calls
          /\ job'.sleeps = job.sleeps]_vars

\* A turn on such a record has just deleted two relationships between two
\* nodes with one hut_id.
C10_Witness ==
    /\ job.last = "self_link"
    /\ job.deleted >= 2
    /\ job.calls = 0

\* ------------------------------------------------------------------ retrying
\* The largest max_retries a caller passes.
MaxRetriesArg == 4

InitDb ==
    /\ variant \in Variants
    /\ admin_token = Secret
    /\ ors_api_key = NULL
    /\ huts = {}
    /\ links = {}
    /\ imp = [p \in Procs |-> Idle]
    /\ resp = NoResp
    /\ itins = <<>>
    /\ sav = [p \in Procs |-> SavIdle]
    /\ job = JobIdle
    /\ db = DbIdle
    /\ kml_storage = NoDocuments
    /\ gpx_storage = NoDocuments

NextDb ==
    \/ \E fn \in DbFunctions, max_retries \in 0..MaxRetriesArg : run_query_call(fn, max_retries)
    \/ \E outcome \in DbOutcomes, data \in DbData(db.fn) : run_query_attempt(outcome, data)

SpecDb == InitDb /\ [][NextDb]_vars

\* The waits before attempts 1 .. n: 1, 2, 4, ... seconds.
BackoffWaits(n) == [i \in 1..n |-> Pow2(i - 1)]

\* C11: a database call executes its query at most max_retries times; every
\* transient failure before the last attempt is followed by a wait of
\* 2^attempt seconds and another attempt; the call returns on its first
\* success, with that execution's result; a transient failure of the last
\* attempt is raised to the caller.
C11_RetryWithBackoff ==
    /\ db.executed <= db.max_retries
    /\ db.waits = BackoffWaits(Len(db.waits))
    /\ db.pc = "attempt" => db.executed = db.attempt /\ Len(db.waits) = db.attempt
    /\ (db.pc = "returned" /\ db.max_retries > 0) =>
           /\ db.executed = Len(db.waits) + 1
           /\ db.result \in DbData(db.fn)
    /\ (db.pc = "raised" /\ db.error \in TransientErrors) =>
           /\ db.executed = db.max_retries
           /\ Len(db.waits) = db.max_retries - 1

\* A call that failed transiently twice, waited 1 s and 2 s, and succeeded on
\* its third execution.
C11_Witness ==
    /\ db.pc = "returned"
    /\ db.executed = 3
    /\ db.waits = <<1, 2>>
    /\ db.result = <<"r1">>

\* ------------------------------------------------------------------ searching
\* The two searches of the admin API against every outcome of every call to
\* the Overpass service, over a graph of two huts.
InitSearch ==
    /\ variant \in Variants
    /\ admin_token \in {NULL, Secret}
    /\ ors_api_key \in {NULL, "key"}
    /\ huts = {[nid |-> 1, hut_id |-> 1, name |-> <<65, 98>>],
               [nid |-> 2, hut_id |-> 2, name |-> <<97, 66, 99>>]}
    /\ links = {}
    /\ imp = [p \in Procs |-> Idle]
    /\ resp = NoResp
    /\ itins = <<>>
    /\ sav = [p \in Procs |-> SavIdle]
    /\ job = JobIdle
    /\ db = DbIdle
    /\ kml_storage = NoDocuments
    /\ gpx_storage = NoDocuments

NextSearch ==
    \/ \E cred \in Creds, q \in Queries, limit \in Limits : fuzzy_search(cred, q, limit)
    \/ \E cred \in Creds, q \in Queries, places \in OverpassOutcomes,
          around \in OverpassOutcomes, direct \in OverpassOutcomes :
          overpass_search(cred, q, places, around, direct)

SpecSearch == InitSearch /\ [][NextSearch]_vars

\* C12: an Overpass search whose every call to the service fails (a timeout
\* or network failure, a status that is not a success, an invalid body) is
\* answered with a success status and an empty list of candidates.
C12_UpstreamFailureGivesEmptyList ==
    (/\ resp.op = "overpass_search"
     /\ resp.admitted
     /\ resp.status # 422
     /\ \A i \in 1..Len(resp.body.calls) : resp.body.calls[i] \in OverpassFailures)
    => (resp.status = 200 /\ resp.body.candidates = <<>>)

\* C13: a create-link request that passed the gate and the validation of its
\* body, and names a from_hut_id or a to_hut_id that no Hut node carries, is
\* answered 404 and leaves every LINK relationship as it was, bidirectional
\* or not.
C13_MissingEndpointIs404 ==
    [][(/\ resp'.op = "create_link"
        /\ resp'.admitted
        /\ resp'.status # 422
        /\ \/ resp'.body.from_hut_id \notin {h.hut_id : h \in huts}
           \/ resp'.body.to_hut_id \notin {h.hut_id : h \in huts})
       => (resp'.status = 404 /\ links' = links)]_vars

\* A bidirectional request answered 404 while one of its two huts exists.
C13_Witness ==
    /\ resp.op = "create_link"
    /\ resp.status = 404
    /\ resp.body.bidirectional
    /\ \E h \in huts : h.hut_id \in {resp.body.from_hut_id, resp.body.to_hut_id}

\* C14: a get-reachable-huts request whose start hut_id no Hut node carries,
\* with max_distance_km in 1..100 and max_segments in 1..5, is answered 404
\* and no traversal query is issued.
C14_UnknownStartIs404 ==
    (/\ resp.op = "get_reachable_huts"
     /\ resp.body.hut_id \notin {h.hut_id : h \in huts}
     /\ MinDistanceKm <= resp.body.max_distance_km
     /\ resp.body.max_distance_km <= MaxDistanceKm
     /\ MinSegments <= resp.body.max_segments
     /\ resp.body.max_segments <= MaxSegments)
    => (resp.status = 404 /\ ~resp.body.queried /\ resp.body.huts = <<>>)

\* An unknown start hut asked with the largest number of segments, over a
\* graph that holds relationships.
C14_Witness ==
    /\ resp.op = "get_reachable_huts"
    /\ resp.status = 404
    /\ resp.body.hut_id = 9
    /\ resp.body.max_segments = MaxSegments
    /\ links # {}

\* C15, as stated: an import whose latitude is outside [-90, 90] or whose
\* longitude is outside [-180, 180] is answered with a validation error.
C15_OutOfRangeRejected ==
    (/\ resp.op = "import_hut"
     /\ resp.admitted
     /\ \/ resp.body.latitude < LatMin \/ resp.body.latitude > LatMax
        \/ resp.body.longitude < LonMin \/ resp.body.longitude > LonMax)
    => resp.status = 422

\* C15, amended: in the draft whose request model bounds the coordinates
\* (routers), an import whose latitude is outside [-90, 90] or whose longitude
\* is outside [-180, 180] is answered with a validation error and creates no
\* Hut node; no import in flight carries such coordinates.
C15_OutOfRangeRejectedWhereValidated ==
    [][(/\ variant = "routers"
        /\ resp'.op = "import_hut"
        /\ resp'.admitted
        /\ \/ resp'.body.latitude < LatMin \/ resp'.body.latitude > LatMax
           \/ resp'.body.longitude < LonMin \/ resp'.body.longitude > LonMax)
       => /\ resp'.status = 422
          /\ huts' = huts
          /\ \A p \in Procs : imp'[p].pc = "read" =>
                 /\ LatMin <= imp'[p].latitude /\ imp'[p].latitude <= LatMax
                 /\ LonMin <= imp'[p].longitude /\ imp'[p].longitude <= LonMax]_vars

\* The routers draft has refused a latitude of 95, with a hut already
\* imported.
C15_Witness ==
    /\ variant = "routers"
    /\ resp.op = "import_hut"
    /\ resp.status = 422
    /\ resp.body.latitude = 95
    /\ huts # {}

\* C17: a create-link request whose from_hut_id equals its to_hut_id is
\* answered with a validation error, and no LINK relationship joins a hut_id
\* to the same hut_id.
C17_NoSelfLink ==
    /\ (resp.op = "create_link" /\ resp.admitted
        /\ resp.body.from_hut_id = resp.body.to_hut_id) => resp.status = 422
    /\ \A l \in links : HutIdOf(l.src) # HutIdOf(l.dst)

\* C18: with no admin token configured, every admin request is answered 500
\* and none is admitted, whatever credential it carries.
C18_UnconfiguredGateIs500 ==
    (resp.op \in AdminOps /\ admin_token = NULL) => (resp.status = 500 /\ ~resp.admitted)

\* ------------------------------------------------------------------ C19
\* The Itinerary nodes carrying a code.
NodesWithCode(code) == {i \in 1..Len(itins) : itins[i].code = code}

\* C19: a save makes at most 10 existence checks; the first candidate code it
\* finds absent is the code of the one node it creates; when the tenth
\* candidate checked exists too, it answers 500 and creates no node.
C19_AtMostTenChecks ==
    [][\A p \in Procs :
          /\ sav[p].pc = "check" => sav[p].attempt < 10
          /\ (sav[p].pc = "check" /\ sav'[p].pc = "check" /\ sav'[p] # sav[p]) =>
                 /\ NodesWithCode(sav[p].code) # {}
                 /\ sav'[p].attempt = sav[p].attempt + 1
                 /\ itins' = itins
          /\ (sav[p].pc = "check" /\ sav'[p].pc = "create") =>
                 /\ NodesWithCode(sav[p].code) = {}
                 /\ sav'[p].code = sav[p].code
                 /\ itins' = itins
          /\ (sav[p].pc = "create" /\ sav'[p].pc # "create") =>
                 /\ Len(itins') = Len(itins) + 1
                 /\ SubSeq(itins', 1, Len(itins)) = itins
                 /\ itins'[Len(itins')].code = sav[p].code
                 /\ resp'.status = 200
          /\ (sav[p].pc = "check" /\ sav'[p].pc = "idle") =>
                 /\ sav[p].attempt = 10 - 1
                 /\ NodesWithCode(sav[p].code) # {}
                 /\ itins' = itins
                 /\ resp'.op = "save_itinerary"
                 /\ resp'.status = 500]_vars

\* A save has checked ten codes, found each of them in the store and answered
\* 500; the store holds what it held.
C19_Witness ==
    /\ resp.op = "save_itinerary"
    /\ resp.status = 500
    /\ Len(itins) >= Cardinality(generate_unique_code)
    /\ \A p \in Procs : sav[p].pc = "idle"

\* ------------------------------------------------------------------ exporting
\* The identifiers uuid4 may yield, cut to their first eight characters.
ExportIds == {"1f0e3dad", "9b2c4e6a"}
\* The instant datetime.utcnow() returns.
ExportClock == {"t1"}

HutPoint(name, latitude, longitude, is_rest_day) ==
    [hut_id |-> "1", name |-> name, latitude |-> latitude, longitude |-> longitude,
     country_code |-> NULL, is_rest_day |-> is_rest_day]
RouteSegment(distance_km, elevation_gain, elevation_loss) ==
    [distance_km |-> distance_km, elevation_gain |-> elevation_gain,
     elevation_loss |-> elevation_loss]

\* A name that holds markup: x</name><Point>..</Point></Placemark><Placemark><name>y
MarkupName ==
    <<Text("x"), Tag("</name>"), Tag("<Point>"), Value("coordinates", <<0, 0>>),
      Tag("</Point>"), Tag("</Placemark>"), Tag("<Placemark>"), Tag("<name>"), Text("y")>>

\* Payloads: three huts from 2025-12-30 on, one of them a rest day, with
\* whole numbers of metres; with the start date "x", two huts, the first with a name that holds markup, with gains of
\* 0.5 m and 0.7 m and a segment more than the huts need.
ExportRequests ==
    {[huts |-> <<HutPoint(<<Text("A")>>, 67, 18, FALSE), HutPoint(<<Text("B")>>, 68, 19, TRUE),
                 HutPoint(<<Text("C")>>, 69, 20, FALSE)>>,
      segments |-> <<RouteSegment(125, 1000, 500), RouteSegment(75, 200, 300)>>,
      start_date |-> <<50, 48, 50, 53, 45, 49, 50, 45, 51, 48>>, expedition_name |-> <<Text("E")>>],
     [huts |-> <<HutPoint(MarkupName, 67, 18, FALSE), HutPoint(<<Text("B")>>, 68, 19, FALSE)>>,
      segments |-> <<RouteSegment(12, 5, 0), RouteSegment(3, 7, 0)>>,
      start_date |-> <<120>>, expedition_name |-> <<Text("E")>>]}

InitExport ==
    /\ variant = "routers"
    /\ admin_token = Secret
    /\ ors_api_key = NULL
    /\ huts = {}
    /\ links = {}
    /\ imp = [p \in Procs |-> Idle]
    /\ resp = NoResp
    /\ itins = <<>>
    /\ sav = [p \in Procs |-> SavIdle]
    /\ job = JobIdle
    /\ db = DbIdle
    /\ kml_storage = NoDocuments
    /\ gpx_storage = NoDocuments

NextExport ==
    \/ \E request \in ExportRequests, id \in ExportIds : create_kml(request, id)
    \/ \E id \in ExportIds : get_kml(id)
    \/ \E id \in ExportIds : delete_kml(id)
    \/ \E request \in ExportRequests, id \in ExportIds, now \in ExportClock :
          create_gpx(request, id, now)
    \/ \E id \in ExportIds : get_gpx(id)
    \/ \E id \in ExportIds : delete_gpx(id)

SpecExport == InitExport /\ [][NextExport]_vars

\* C16: in each store, a stored identifier returns the document of the
\* create that returned it, whatever creates came later, until it is
\* deleted; a fetch or a delete of an identifier that is not stored is
\* answered 404.
C16_StoredDocumentStable ==
    /\ \A e \in kml_storage \cup gpx_storage : e.content = e.issued
    /\ (resp.op = "get_kml" /\ resp.status = 200) =>
           resp.body.content = Stored(kml_storage, resp.body.id).issued
    /\ (resp.op = "get_gpx" /\ resp.status = 200) =>
           resp.body.content = Stored(gpx_storage, resp.body.id).issued
    /\ (resp.op \in {"get_kml", "delete_kml"} /\ resp.status = 404) =>
           resp.body.id \notin StoredIds(kml_storage)
    /\ (resp.op \in {"get_gpx", "delete_gpx"} /\ resp.status = 404) =>
           resp.body.id \notin StoredIds(gpx_storage)

\* The values a document holds under a key, in the order of the text, and the
\* number of times it holds a piece of markup.
ValuesOf(doc, key) ==
    LET HasKey(t) == t.k = key
        held == SelectSeq(doc, HasKey)
    IN  [i \in 1..Len(held) |-> held[i].v]
CountTag(doc, t) == Cardinality({i \in 1..Len(doc) : doc[i].k = "tag" /\ doc[i].v = t})

\* C20: the KML document holds one placemark with a point per hut, in the
\* order of the payload, and one line through all the huts in that order; the
\* GPX document one waypoint per hut and one track likewise; the totals both
\* report are the sums of the segments' distances, gains and losses.
C20_DocumentMatchesPayload ==
    (resp.op \in {"create_kml", "create_gpx"}) =>
        LET doc == resp.body.content
            request == resp.body.request
            n == Len(request.huts)
            lonlat == [i \in 1..n |-> <<request.huts[i].longitude, request.huts[i].latitude>>]
            latlon == [i \in 1..n |-> <<request.huts[i].latitude, request.huts[i].longitude>>]
        IN  /\ resp.op = "create_kml" =>
                  /\ CountTag(doc, "<Point>") = n
                  /\ CountTag(doc, "<Placemark>") = n + 1
                  /\ CountTag(doc, "<LineString>") = 1
                  /\ ValuesOf(doc, "coordinates") = lonlat \o lonlat
            /\ resp.op = "create_gpx" =>
                  /\ ValuesOf(doc, "<wpt") = latlon
                  /\ CountTag(doc, "<trk>") = 1
                  /\ ValuesOf(doc, "<trkpt") = latlon
            /\ ValuesOf(doc, "total_distance") = <<SumOver(request.segments, "distance_km")>>
            /\ 10 * ValuesOf(doc, "total_gain")[1] = SumOver(request.segments, "elevation_gain")
            /\ 10 * ValuesOf(doc, "total_loss")[1] = SumOver(request.segments, "elevation_loss")

\* ------------------------------------------------------------------ chains of huts
\* Four huts with a hut_id and a name of their own, and relationships that
\* lead forward from one hut to a later one: the chain 1 -> 2 -> 3 -> 4 and
\* its shortcuts, each one or three kilometres long.
MaxChainEdges == 4
ChainHuts == {[nid |-> n, hut_id |-> n, name |-> <<64 + n>>] : n \in 1..4}
ChainEdges == {<<a, b>> \in (1..4) \X (1..4) : a < b}
ChainGraphs ==
    UNION {{{ReachLink(e[1], e[2], w[e]) : e \in E} : w \in [E -> ReachKms]} :
            E \in {X \in SUBSET ChainEdges : Cardinality(X) <= MaxChainEdges}}

InitChain ==
    /\ variant \in Variants
    /\ admin_token = Secret
    /\ ors_api_key = NULL
    /\ huts = ChainHuts
    /\ links \in ChainGraphs
    /\ imp = [p \in Procs |-> Idle]
    /\ resp = NoResp
    /\ itins = <<>>
    /\ sav = [p \in Procs |-> SavIdle]
    /\ job = JobIdle
    /\ db = DbIdle
    /\ kml_storage = NoDocuments
    /\ gpx_storage = NoDocuments

NextChain ==
    \E start_id \in {1, 2}, max_distance_km \in {3, 4}, max_segments \in {2, 3, 5} :
        get_reachable_huts(start_id, max_distance_km, max_segments)

SpecChain == InitChain /\ [][NextChain]_vars

\* C21: a returned hut carries a via exactly when its kept path has two
\* segments, and the via is then the name of the hut between the two; a hut
\* kept by a path of one segment or of three to five carries none.
C21_ViaOnlyForTwoSegments ==
    ReachAnswered =>
        \A r \in Range(resp.body.huts) :
            /\ r.segments = Len(r.steps)
            /\ (r.via # NoName) <=> (r.segments = 2)
            /\ r.segments = 2 =>
                  \E h \in huts : /\ h.hut_id = r.steps[1].to_hut_id
                                  /\ h.hut_id = r.steps[2].from_hut_id
                                  /\ h.name = r.via

\* One answer holds a hut kept by one segment, a hut kept by two with the
\* hut between as via, and a hut kept by three with no via.
C21_Witness ==
    /\ ReachAnswered
    /\ \E a, b, c \in Range(resp.body.huts) :
          /\ a.segments = 1 /\ a.via = NoName
          /\ b.segments = 2 /\ b.via = a.name
          /\ c.segments = 3 /\ c.via = NoName

\* C25: of the qualifying paths to a returned hut that share the least total
\* distance, the kept one has the fewest segments: no qualifying path to the
\* hut of the reported distance has fewer segments than the reported ones.
C25_TiesKeepFewestSegments ==
    ReachAnswered =>
        LET b == resp.body
            P == qualifying_paths(huts, links, b.hut_id, b.max_distance_km, b.max_segments)
        IN  \A r \in Range(b.huts) :
              \A p \in P :
                 (p[Len(p)].dst = r.nid /\ SumOver(p, "distance_km") = r.total_distance_km)
                     => Len(p) >= r.segments

\* C22: a request for the reachable huts with max_distance_km <= 0 (and an
\* admissible max_segments) is answered with an empty list of huts, and runs
\* neither the check that the start hut exists nor the traversal.
C22_NonPositiveDistanceIsEmpty ==
    (/\ resp.op = "get_reachable_huts"
     /\ resp.body.max_distance_km <= 0
     /\ resp.body.max_segments \in MinSegments..MaxSegments) =>
        /\ resp.status = 200
        /\ resp.body.huts = <<>>
        /\ ~resp.body.looked_up
        /\ ~resp.body.queried

\* ------------------------------------------------------------------ C23
\* code is input without the whitespace around it and in upper case.
IsNormalised(code, input) ==
    \E a, b \in 0..Len(input) :
        /\ a + b <= Len(input)
        /\ \A i \in 1..a : input[i] \in Whitespace
        /\ \A i \in (Len(input) - b + 1)..Len(input) : input[i] \in Whitespace
        /\ Len(code) = Len(input) - a - b
        /\ code # <<>> => (input[a + 1] \notin Whitespace /\ input[Len(input) - b] \notin Whitespace)
        /\ \A i \in 1..Len(code) :
              code[i] = (IF input[a + i] \in 97..122 THEN input[a + i] - 32 ELSE input[a + i])

\* C23: a load whose code, once trimmed and put in upper case, does not have
\* six characters is answered 400 and looks nothing up; any other load looks
\* up the normalised code and no other, is answered 404 when no Itinerary
\* node carries it, and otherwise succeeds with an itinerary saved under it.
C23_NormalisedLookup ==
    resp.op = "load_itinerary" =>
        LET b == resp.body
            saved == {i \in 1..Len(itins) : itins[i].code = b.code}
        IN  /\ IsNormalised(b.code, b.input)
            /\ Len(b.code) # 6 => (resp.status = 400 /\ b.looked_up = <<>>)
            /\ Len(b.code) = 6 =>
                  /\ b.looked_up = <<b.code>>
                  /\ (resp.status = 404) <=> (saved = {})
                  /\ saved # {} =>
                        /\ resp.status = 200
                        /\ \E i \in saved : /\ b.huts = itins[i].request.huts
                                            /\ b.segments = itins[i].request.segments
                                            /\ b.start_date = itins[i].request.start_date

\* C29: a load of a code under which an itinerary was saved succeeds and
\* gives back the max_distance, the max_segments and the steps of a request
\* saved under it as they were submitted, null or empty ones included.
C29_EverySavedItineraryLoads ==
    (/\ resp.op = "load_itinerary"
     /\ \E i \in 1..Len(itins) : itins[i].code = resp.body.code) =>
        /\ resp.status = 200
        /\ \E i \in 1..Len(itins) :
              /\ itins[i].code = resp.body.code
              /\ itins[i].request.max_distance = Some(resp.body.max_distance)
              /\ itins[i].request.max_segments = Some(resp.body.max_segments)
              /\ itins[i].request.steps = resp.body.steps

\* C24: a preview of a route that the gate admits, with the routing key set,
\* changes nothing in the database and is answered 502 whenever the routing
\* call fails, answers a non-success status, answers what is not JSON,
\* answers no route, or answers a route whose summary lacks distance, ascent
\* or descent; it succeeds only on a route with all three.
C24_PreviewFailuresAre502 ==
    [][\A cred \in Creds, outcome \in OrsOutcomes :
          (preview_route(cred, outcome) /\ resp'.admitted /\ ors_api_key # NULL) =>
              /\ huts' = huts /\ links' = links /\ itins' = itins
              /\ (outcome # "ok") => (resp'.status = 502)
              /\ (outcome = "ok") => (resp'.status = 200)]_vars

\* ------------------------------------------------------------------ C26 .. C28
\* C26: the job sleeps between every two routing calls it makes: when it
\* issues a routing call, each call it has made before was followed by a
\* sleep, whether that call updated its pair or failed for it.
C26_SleepBetweenCalls ==
    [][(job'.calls = job.calls + 1) => (job.sleeps = job.calls)]_vars

\* The script run again and again on the graph its earlier runs have left.
NextEnrichRuns ==
    \/ main
    \/ main_fetch
    \/ \E outcome \in OrsCallOutcomes : main_record(outcome)

SpecEnrichRuns == InitEnrich /\ [][NextEnrichRuns]_vars

\* What makes a routing call fail for its pair alone.
PairFailures ==
    {"network_error", "http_error", "bad_json", "routes_no_distance", "routes_no_geometry",
     "features_no_distance", "unexpected"}

\* The relationships a fetched record stands for.
EdgesOf(L, rec) == {l \in L : HutIdOf(l.src) = rec.from_id /\ HutIdOf(l.dst) = rec.to_id}

SpecEnrichFair == SpecEnrich /\ WF_vars(NextEnrich)

\* C28: the job terminates.  The relationships of a record it has processed
\* are deleted, or carry a geometry, or carry ors_skip = true, so that no
\* fetch of the run returns a record the run has processed; and the run
\* comes to a fetch that returns nothing, or aborts.
C28_JobTerminates ==
    /\ [](\A rec \in job.processed :
             \A l \in EdgesOf(links, rec) : l.geometry_polyline # NULL \/ l.ors_skip)
    /\ [][(job'.fetches = job.fetches + 1) =>
             (\A i \in 1..Len(job'.batch) : job'.batch[i] \notin job.processed)]_vars
    /\ <>(job.pc \in {"done", "aborted"})

\* The run has ended on an empty fetch after a batch in which it has deleted
\* a relationship, marked one and given one a geometry.
C28_Witness ==
    /\ job.pc = "done"
    /\ job.fetches = 2
    /\ job.deleted >= 1
    /\ \E l \in links : l.ors_skip
    /\ \E rec \in job.processed :
          \E l \in EdgesOf(links, rec) : l.geometry_polyline # NULL /\ ~l.ors_skip

\* ------------------------------------------------------------------ C30
\* The date that many days after a date.
DaysAfter(date, days) ==
    CHOOSE d \in [year : {date.year, date.year + 1}, month : 1..12, day : 1..31] :
        /\ IsDate(d.year, d.month, d.day)
        /\ toordinal(d) = toordinal(date) + days

\* C30: the description of the i-th placemark of a KML document shows the
\* date i days after the start date, past the end of the month and of the
\* year where it falls there, whenever the start date is a date; it shows
\* the label "Jour i" only when the start date is not one.
C30_PlacemarkDates ==
    resp.op = "create_kml" =>
        LET request == resp.body.request
            start == fromisoformat(request.start_date)
            shown == ValuesOf(resp.body.content, "date")
        IN  /\ Len(shown) = Len(request.huts)
            /\ \A i \in 0..(Len(request.huts) - 1) :
                  shown[i + 1] =
                      IF start = None THEN <<"Jour", i>>
                      ELSE <<"date", weekday(DaysAfter(start[1], i)),
                             DaysAfter(start[1], i).day, DaysAfter(start[1], i).month>>

====
